---- MODULE Spec2Model ----
(***************************************************************************)
(* Model of the weight resampler of skinner (src/skinner/core.py):         *)
(* closestPointBruteForce / closestPointKdTree, closestNeighborsWeights,   *)
(* closestPointWeights and utils.normalizeToOne; of the library checks of  *)
(* importSkinChunks / setWeights; and of the functions that are applied    *)
(* on their own: normalizeToOne, the two closest-point functions,          *)
(* utils.transposeWeights, utils.getVertNeighborSamples and                *)
(* SkinChunk.getByVertCountOrder.                                          *)
(*                                                                         *)
(* Specifications                                                          *)
(*  - Spec: a resampler called with scipy installed.                       *)
(*  - SpecImport: importSkinChunks / setWeights / a resampler called with  *)
(*    scipy installed or not.                                              *)
(*  - SpecCalls: one function applied to arguments drawn from bounded      *)
(*    sets.                                                                *)
(*  - SpecSession: the operations that touch files, the Maya scene and     *)
(*    the undo queue: importSkinChunks, exportSkin, the setSkinnerWeights  *)
(*    command (plugin_set_weights.py), the mesh loop and undo chunks of    *)
(*    setWeights, App.importSkin (window.py) and UberChunk.__init__.       *)
(*                                                                         *)
(* Conventions                                                             *)
(*  - A Python list / ndarray is a TLA+ sequence; position p of the        *)
(*    sequence is Python position p-1.  Vertex indexes that the code       *)
(*    stores as values (indexArr, closestIndices, rejectedIndices) keep    *)
(*    their Python value (0-based), so a[idx] is written a[idx + 1].       *)
(*  - A float is an exact rational <<num, den>> in lowest terms with       *)
(*    den > 0; <<0, 0>> is NaN.  Inputs are integers and dyadic            *)
(*    fractions, for which the products and comparisons the code makes     *)
(*    on the distances are exact in binary floating point as well.         *)
(*  - Points lie on the x axis of an integer lattice, so that              *)
(*    np.linalg.norm is an integer.                                        *)
(***************************************************************************)
EXTENDS Integers, Sequences, FiniteSets, TLC

\* ---------------------------------------------------------------- bounds
MaxCoord == 3
MaxImportCoord == 1
MaxSaved == 3
MaxImport == 2
MaxCount == 3
MaxLen == 3
MaxTargets == 2
MaxRows == 2
MaxLabels == 2
MaxVerts == 4

\* ------------------------------------------------------ float arithmetic
Abs(x) == IF x < 0 THEN -x ELSE x

RECURSIVE GCD(_, _)
GCD(a, b) == IF b = 0 THEN a ELSE GCD(b, a % b)

NaN == <<0, 0>>
IsNaN(a) == a[2] = 0

Rat(n, d) ==
    IF d = 0 THEN NaN
    ELSE LET g == GCD(Abs(n), Abs(d))
             s == IF d < 0 THEN -1 ELSE 1
         IN  <<(s * n) \div g, (s * d) \div g>>

Zero == <<0, 1>>
One == <<1, 1>>
FromInt(n) == <<n, 1>>

RAdd(a, b) == IF IsNaN(a) \/ IsNaN(b) THEN NaN
              ELSE Rat(a[1] * b[2] + b[1] * a[2], a[2] * b[2])
RSub(a, b) == IF IsNaN(a) \/ IsNaN(b) THEN NaN
              ELSE Rat(a[1] * b[2] - b[1] * a[2], a[2] * b[2])
RMul(a, b) == IF IsNaN(a) \/ IsNaN(b) THEN NaN
              ELSE Rat(a[1] * b[1], a[2] * b[2])
\* numpy float division: a zero divisor gives nan/inf (collapsed to NaN here)
RDiv(a, b) == IF IsNaN(a) \/ IsNaN(b) \/ b[1] = 0 THEN NaN
              ELSE Rat(a[1] * b[2], a[2] * b[1])
\* comparisons with NaN are False, as in IEEE 754
RLt(a, b) == ~IsNaN(a) /\ ~IsNaN(b) /\ a[1] * b[2] < b[1] * a[2]
RLe(a, b) == ~IsNaN(a) /\ ~IsNaN(b) /\ a[1] * b[2] <= b[1] * a[2]
RGt(a, b) == RLt(b, a)
RGe(a, b) == RLe(b, a)
REq(a, b) == ~IsNaN(a) /\ ~IsNaN(b) /\ a = b

RECURSIVE RSum(_)
RSum(vals) == IF vals = <<>> THEN Zero
              ELSE RAdd(RSum(SubSeq(vals, 1, Len(vals) - 1)), vals[Len(vals)])

\* min(list) / max(list) keep the first item no later item beats (a NaN never
\* beats and is never beaten); list.index() then finds that item's position.
RECURSIVE MinFrom(_, _, _)
MinFrom(vals, best, j) ==
    IF j > Len(vals) THEN best
    ELSE MinFrom(vals, IF RLt(vals[j], vals[best]) THEN j ELSE best, j + 1)
RECURSIVE MaxFrom(_, _, _)
MaxFrom(vals, best, j) ==
    IF j > Len(vals) THEN best
    ELSE MaxFrom(vals, IF RGt(vals[j], vals[best]) THEN j ELSE best, j + 1)
IndexOfMin(vals) == MinFrom(vals, 1, 2)
IndexOfMax(vals) == MaxFrom(vals, 1, 2)

\* list.pop(i): the list without position i
Pop(vals, i) == SubSeq(vals, 1, i - 1) \o SubSeq(vals, i + 1, Len(vals))

\* list.reverse()
Reverse(vals) == [i \in 1..Len(vals) |-> vals[Len(vals) + 1 - i]]

Min2(a, b) == IF a < b THEN a ELSE b

\* ------------------------------------------------- utils.normalizeToOne
\* (mutation) the values returned as they came
normalizeToOneSkipped(vals) == vals

normalizeToOne(vals) ==
    IF REq(RSum(vals), One) THEN vals
    ELSE LET total == RSum(vals)
             normed == [i \in 1..Len(vals) |-> RDiv(vals[i], total)]
             normSum == RSum(normed)
         IN  IF ~REq(normSum, One)
             THEN LET minIndex == IndexOfMin(normed)
                      normBuffer == Pop(normed, minIndex)
                      sumAllButMin == RSum(normBuffer)
                      newMinVal == RSub(One, sumAllButMin)
                  IN  IF RGe(newMinVal, Zero)
                      THEN [normed EXCEPT ![minIndex] = newMinVal]
                      ELSE LET zeroed == [normed EXCEPT ![minIndex] = Zero]
                               maxIndex == IndexOfMax(zeroed)
                           IN  [zeroed EXCEPT
                                  ![maxIndex] = RAdd(zeroed[maxIndex], newMinVal)]
             ELSE normed

\* ------------------------------------------------------------ geometry
\* om2.MVector * om2.MVector is the dot product
Dot(a, b) == a[1] * b[1] + a[2] * b[2] + a[3] * b[3]
VSub(a, b) == <<a[1] - b[1], a[2] - b[2], a[3] - b[3]>>
ISqrt(sq) == CHOOSE r \in 0..sq : r * r = sq
\* np.linalg.norm(point - targPoint)
Norm(point, targPoint) == ISqrt(Dot(VSub(point, targPoint), VSub(point, targPoint)))

\* ------------------------------------------------ nearest-neighbour query
\* numNeighbors after "if len(targets) < numNeighbors: numNeighbors = len(targets)"
ClampNeighbors(targets, numNeighbors) ==
    IF Len(targets) < numNeighbors THEN Len(targets) ELSE numNeighbors

\* (mutation) the pairs sorted farthest first
PairBeforeDescending(point, targets, a, b) ==
    LET da == Norm(point, targets[a + 1])
        db == Norm(point, targets[b + 1])
    IN  da > db \/ (da = db /\ a < b)

\* sorted(distIndices) orders the [dist, j] pairs by distance, then by index
PairBefore(point, targets, a, b) ==
    LET da == Norm(point, targets[a + 1])
        db == Norm(point, targets[b + 1])
    IN  da < db \/ (da = db /\ a < b)

\* one row of closestPointBruteForce: the indexes of the trim nearest targets
BruteForceRow(point, targets, trim) ==
    [k \in 1..trim |->
        CHOOSE j \in 0..(Len(targets) - 1) :
            Cardinality({m \in 0..(Len(targets) - 1) :
                            PairBefore(point, targets, m, j)}) = k - 1]

DistRow(point, targets, indexRow) ==
    [k \in 1..Len(indexRow) |-> FromInt(Norm(point, targets[indexRow[k] + 1]))]

closestPointBruteForce(points, targets, numNeighbors) ==
    \* trim: numNeighbors, and no more than len(distIndices) = len(targets)
    LET trim == Min2(ClampNeighbors(targets, numNeighbors), Len(targets))
        indexes == [i \in 1..Len(points) |-> BruteForceRow(points[i], targets, trim)]
    IN  {[distances |-> [i \in 1..Len(points) |->
                            DistRow(points[i], targets, indexes[i])],
          indexes |-> indexes]}

\* one row of KDTree.query: the k nearest targets by ascending distance; the
\* order among targets at equal distance is whatever the tree yields
KdTreeRows(point, targets, k) ==
    {row \in [1..k -> 0..(Len(targets) - 1)] :
        /\ \A a, b \in 1..k : a < b =>
              /\ row[a] # row[b]
              /\ Norm(point, targets[row[a] + 1]) <= Norm(point, targets[row[b] + 1])
        /\ \A j \in 0..(Len(targets) - 1) :
              (\A a \in 1..k : row[a] # j) =>
                  \A a \in 1..k :
                      Norm(point, targets[row[a] + 1]) <= Norm(point, targets[j + 1])}

\* a numpy scalar (an item of a one-dimensional array, itself of dimension
\* zero), as opposed to a row, whose items are at 1..len
Scalar(x) == [d \in {0} |-> x]

\* KDTree(targets).query(points, k): per point the k nearest targets; for
\* k = 1 the arrays hold one scalar per point instead of one row per point
KDTreeQuery(points, targets, k) ==
    LET rowsOf == [i \in 1..Len(points) |-> KdTreeRows(points[i], targets, k)]
        rows == UNION {rowsOf[i] : i \in 1..Len(points)}
    IN  {[distances |-> [i \in 1..Len(points) |->
                            IF k = 1
                            THEN Scalar(DistRow(points[i], targets, indexes[i])[1])
                            ELSE DistRow(points[i], targets, indexes[i])],
          indexes |-> [i \in 1..Len(points) |->
                            IF k = 1 THEN Scalar(indexes[i][1]) ELSE indexes[i]]] :
            indexes \in {ix \in [1..Len(points) -> rows] :
                            \A i \in 1..Len(points) : ix[i] \in rowsOf[i]}}

\* (mutation) the arrays of KDTree.query returned as they came
closestPointKdTreeUnwrapped(points, targets, numNeighbors) ==
    KDTreeQuery(points, targets, ClampNeighbors(targets, numNeighbors))

\* closestPointKdTree once the library is known to be there: the clamp, the
\* query and "if numNeighbors == 1:", which wraps each scalar into a row
closestPointKdTree(points, targets, numNeighbors) ==
    LET k == ClampNeighbors(targets, numNeighbors)
    IN  {IF k = 1
         THEN [distances |-> [i \in 1..Len(points) |-> <<q.distances[i][0]>>],
               indexes |-> [i \in 1..Len(points) |-> <<q.indexes[i][0]>>]]
         ELSE q : q \in KDTreeQuery(points, targets, k)}

\* how a call ends
Returned(v) == [state |-> "returned", ret |-> v]
Raised(e) == [state |-> "raised", exc |-> e]

\* ------------------------------------------------------------------ state
VARIABLES
    \* arguments of the call
    allSavedWeights,         \* ndarray[x][y]: one weight row per saved vert
    allSavedBlendWeights,    \* [kind, vals]: the Python object passed and its items
    importVertPositions,     \* points having weights imported onto them
    savedVertPositions,      \* points the weights were saved on
    importVertNormals,
    savedVertNormals,
    closestNeighborCount,    \* rebound by closestNeighborsWeights when < 1
    closestNeighborDistMult,
    closestPointFunc,
    filterByVertNormal,
    vertNormalTolerance,
    \* position and locals of the running function
    pc,                      \* "idle", "importSkinChunks", "setWeights",
                             \* "closestNeighborsWeights", "closestPointWeights",
                             \* "returned", "raised"
    passedNeighborCount,     \* closestNeighborCount as the caller passed it
    useBlendWeights,
    queried,                 \* TRUE once closestPointFunc has been called
    distancesArr,
    indexArr,
    i,                       \* loop index over importVertPositions (Python value)
    closestIndices,          \* per processed target: the pool's indexes (line 512)
    closestDistances,        \* per processed target: the pool's distances (line 512)
    normalizedDistances,     \* per processed target: the reversed coefficients
    closestIndex,            \* closestPointWeights, per processed target
    newWeights,
    newBlendWeights,
    raised,                  \* name of the exception that ended the call, or "none"
    \* module global of core.py
    KDTree,                  \* TRUE when "from scipy.spatial import KDTree" succeeded
    \* a function applied on its own to arguments
    called,                  \* its name, or "none"
    passed,                  \* its arguments, by parameter name
    result,                  \* [state |-> "pending"], [state |-> "returned", ret |-> ..]
                             \* or [state |-> "raised", exc |-> ..]
    \* what a session in Maya works on
    disk,                    \* the .sknr path being exported to: [file, dirWritable,
                             \* written]
    scene,                   \* the skinCluster: [weights, blendWeights], per vertex
    command,                 \* the SkinnerSetWeights instance: [newValue, prevValue]
                             \* and where it stands in Maya's undo queue
    history,                 \* the scene before and after doIt; undos and redos made
    undoQueue,               \* the mc.undoInfo openChunk / closeChunk calls made
    frame                    \* the locals of the running setWeights / App.importSkin

args == <<allSavedWeights, allSavedBlendWeights, importVertPositions,
          savedVertPositions, importVertNormals, savedVertNormals,
          closestNeighborDistMult, closestPointFunc, filterByVertNormal,
          vertNormalTolerance, passedNeighborCount>>
locals == <<useBlendWeights, queried, distancesArr, indexArr, i, closestIndices,
            closestDistances, normalizedDistances, closestIndex, newWeights,
            newBlendWeights>>
calls == <<called, passed, result>>
maya == <<scene, command, history, undoQueue, frame>>
session == <<disk, maya>>
vars == <<args, closestNeighborCount, pc, locals, raised, KDTree, calls, session>>

\* closestPointFunc(points, targets, numNeighbors=...): the ways the selected
\* function can end ("None" selects closestPointBruteForce).  closestPointKdTree
\* raises when the import of KDTree failed; what scipy does with no target at
\* all is the library's business: it may reject the data or answer empty rows.
QueryOutcomes(fn, points, targets, numNeighbors) ==
    IF fn = "closestPointKdTree"
    THEN IF ~KDTree THEN {Raised("ImportError")}
         ELSE (IF Len(targets) = 0 THEN {Raised("ValueError")} ELSE {})
              \cup {Returned(q) : q \in closestPointKdTree(points, targets,
                                                           numNeighbors)}
    ELSE {Returned(q) : q \in closestPointBruteForce(points, targets, numNeighbors)}

\* isinstance(allSavedBlendWeights, type(np.array)): np.array is a builtin
\* function, so type(np.array) is the class builtin_function_or_method
IsInstanceOfTypeNpArray(obj) == obj.kind = "builtin_function_or_method"

\* "if importVertNormals:" / "not importVertNormals": truthiness of a list
Truthy(list) == Len(list) > 0

\* any(closestDistances)
PyAny(vals) == \E k \in 1..Len(vals) : vals[k] # Zero

\* ------------------------------------- closestNeighborsWeights, one target
\* (mutation) the search radius without the multiplier
SearchDistNoMult(t) == distancesArr[t][1]

\* searchDist = distancesArr[i][0] * closestNeighborDistMult  (t = i + 1)
SearchDist(t) == RMul(distancesArr[t][1], closestNeighborDistMult)

EmptyPool == [closestIndices |-> <<>>, closestDistances |-> <<>>,
              rejectedIndices |-> <<>>, rejectedDistnaces |-> <<>>]

\* dot < vertNormalTolerance for target t and saved vert checkIndex
NormalReject(t, checkIndex) ==
    /\ filterByVertNormal
    /\ Dot(importVertNormals[t], savedVertNormals[checkIndex + 1]) < vertNormalTolerance

\* "for j in range(0, len(distancesArr[i]))" from position j on
RECURSIVE ScanPool(_, _, _)
ScanPool(t, j, acc) ==
    IF j > Len(distancesArr[t]) THEN acc
    ELSE IF Len(acc.closestIndices) >= closestNeighborCount THEN acc
    ELSE LET checkIndex == indexArr[t][j]
             checkDist == distancesArr[t][j]
         IN  IF RGt(checkDist, SearchDist(t)) /\ ~filterByVertNormal THEN acc
             ELSE IF ~NormalReject(t, checkIndex)
                  THEN ScanPool(t, j + 1,
                          [acc EXCEPT
                             !.closestIndices = Append(@, checkIndex),
                             !.closestDistances = Append(@, checkDist)])
                  ELSE ScanPool(t, j + 1,
                          [acc EXCEPT
                             !.rejectedIndices = Append(@, checkIndex),
                             !.rejectedDistnaces = Append(@, checkDist)])

\* "if not closestIndices and filterByVertNormal:" use the rejected list
RejectedFallback(acc) ==
    IF acc.closestIndices = <<>> /\ filterByVertNormal
    THEN LET maxIndex == Min2(closestNeighborCount, Len(acc.rejectedIndices))
         IN  [acc EXCEPT
                !.closestIndices = SubSeq(acc.rejectedIndices, 1, maxIndex),
                !.closestDistances =
                    [k \in 1..maxIndex |-> FromInt(acc.rejectedIndices[k])]]
    ELSE acc

\* the pool of target t at line 512
Pool(t) == RejectedFallback(ScanPool(t, 1, EmptyPool))

\* closestDistances after "if not any(closestDistances)": all zero -> averaged
AveragedIfAllZero(dists) ==
    IF ~PyAny(dists)
    THEN [k \in 1..Len(dists) |-> Rat(1, Len(dists))]
    ELSE dists

\* normalizedDistances after normalizeToOne(...) and .reverse()
ReversedNormalizedDistances(dists) ==
    Reverse(normalizeToOne(AveragedIfAllZero(dists)))

\* np.sum(weightByDist, axis=0): one sum per column
SumAxis0(rows) ==
    [c \in 1..Len(rows[1]) |-> RSum([k \in 1..Len(rows) |-> rows[k][c]])]

\* sumedWeights for a pool of two or more members
SumedWeights(indices, normDists) ==
    LET closesetIndexWeights ==
            [k \in 1..Len(indices) |-> allSavedWeights[indices[k] + 1]]
        weightByDist ==
            [k \in 1..Len(indices) |->
                [c \in 1..Len(closesetIndexWeights[k]) |->
                    RMul(closesetIndexWeights[k][c], normDists[k])]]
    IN  SumAxis0(weightByDist)

\* --------------------------------------------------------------- inputs
Half == Rat(1, 2)
Points == {<<x, 0, 0>> : x \in 0..MaxCoord}
ImportPoints == {<<x, 0, 0>> : x \in 0..MaxImportCoord}
Normals == {<<1, 0, 0>>, <<-1, 0, 0>>}
Mults == {Half, FromInt(2), FromInt(4)}
Counts == 0..MaxCount
PointFuncs == {"closestPointKdTree", "closestPointBruteForce"}

\* weight rows over two influences: non-negative, each summing to 1
Palette == <<(<<One, Zero>>), (<<Zero, One>>), (<<Half, Half>>),
             (<<Rat(1, 4), Rat(3, 4)>>)>>
WeightTable(n) == [j \in 1..n |-> Palette[((j - 1) % Len(Palette)) + 1]]
\* blend weights: one scalar per saved vert, distinct per vert
BlendTable(n) == [j \in 1..n |-> Rat(j, MaxSaved + 2)]

EmptyList == [kind |-> "list", vals |-> <<>>]
NdArray(vals) == [kind |-> "ndarray", vals |-> vals]

SeqsUpTo(S, n) == UNION {[1..m -> S] : m \in 1..n}

ArgsInit(w, bw, ip, sp, inrm, snrm, cnt, mult, fn, flt) ==
    /\ allSavedWeights = w
    /\ allSavedBlendWeights = bw
    /\ importVertPositions = ip
    /\ savedVertPositions = sp
    /\ importVertNormals = inrm
    /\ savedVertNormals = snrm
    /\ closestNeighborCount = cnt
    /\ passedNeighborCount = cnt
    /\ closestNeighborDistMult = mult
    /\ closestPointFunc = fn
    /\ filterByVertNormal = flt
    /\ vertNormalTolerance = 0

AllPlusX(n) == [j \in 1..n |-> <<1, 0, 0>>]

\* no normal filtering, no blend weights: every count, multiplier and function
InitPlain ==
    \E sp \in SeqsUpTo(Points, MaxSaved), ip \in SeqsUpTo(ImportPoints, MaxImport),
       cnt \in Counts, mult \in Mults, fn \in PointFuncs :
        ArgsInit(WeightTable(Len(sp)), EmptyList, ip, sp, <<>>,
                 AllPlusX(Len(sp)), cnt, mult, fn, FALSE)

\* normal filtering requested: import normals all +x, saved normals +x or -x
InitFiltered ==
    \E sp \in SeqsUpTo(Points, MaxSaved), ip \in SeqsUpTo(ImportPoints, MaxImport),
       cnt \in Counts :
        \E snrm \in [1..Len(sp) -> Normals] :
            ArgsInit(WeightTable(Len(sp)), EmptyList, ip, sp, AllPlusX(Len(ip)), snrm,
                     cnt, FromInt(2), "closestPointBruteForce", TRUE)

\* blend weights passed as an ndarray, of the right length or not
InitBlendWeights ==
    \E sp \in SeqsUpTo(Points, MaxSaved), ip \in SeqsUpTo(ImportPoints, MaxImport),
       n \in 1..(MaxSaved + 1) :
        ArgsInit(WeightTable(Len(sp)), NdArray(BlendTable(n)), ip, sp, <<>>,
                 AllPlusX(Len(sp)), 2, FromInt(2), "closestPointBruteForce", FALSE)

\* normals missing or of the wrong length
InitBadNormals ==
    \E sp \in SeqsUpTo(Points, MaxSaved), ip \in SeqsUpTo(ImportPoints, MaxImport),
       n \in 0..(MaxImport + 1), flt \in BOOLEAN :
        /\ n # Len(ip)
        /\ flt \/ n # 0
        /\ ArgsInit(WeightTable(Len(sp)), EmptyList, ip, sp, AllPlusX(n),
                    AllPlusX(Len(sp)), 2, FromInt(2), "closestPointBruteForce", flt)

\* nothing has run yet
LocalsInit ==
    /\ pc = "idle"
    /\ useBlendWeights = FALSE
    /\ queried = FALSE
    /\ distancesArr = <<>>
    /\ indexArr = <<>>
    /\ i = 0
    /\ closestIndices = <<>>
    /\ closestDistances = <<>>
    /\ normalizedDistances = <<>>
    /\ closestIndex = <<>>
    /\ newWeights = <<>>
    /\ newBlendWeights = <<>>
    /\ raised = "none"

\* no function is applied on its own
NoCall ==
    /\ called = "none"
    /\ passed = <<>>
    /\ result = [state |-> "none"]

\* the dict {}
EmptyDict == <<>>

\* SkinnerSetWeights.__init__; queue tells where the command stands in
\* Maya's undo queue: "none", "done", "undone"
NewCommand == [newValue |-> EmptyDict, prevValue |-> EmptyDict, queue |-> "none"]
NoHistory == [before |-> <<>>, after |-> <<>>, undos |-> 0, redos |-> 0]
NoFile == [file |-> "absent", dirWritable |-> TRUE, written |-> FALSE]

\* the locals of a setWeights call that has not started
NoFrame ==
    [pc |-> "none", mesh |-> 0, setToBindPose |-> FALSE, thisRetData |-> <<>>,
     ret |-> <<>>, outcome |-> [state |-> "none"]]

\* no command has run in Maya
NoMaya ==
    /\ scene = [weights |-> <<>>, blendWeights |-> <<>>]
    /\ command = NewCommand
    /\ history = NoHistory
    /\ undoQueue = <<>>
    /\ frame = NoFrame

\* nothing is exported, no command has run
NoSession ==
    /\ disk = NoFile
    /\ NoMaya

\* the resamplers called with scipy installed
Init ==
    /\ InitPlain \/ InitFiltered \/ InitBlendWeights \/ InitBadNormals
    /\ LocalsInit
    /\ KDTree = TRUE
    /\ NoCall
    /\ NoSession

\* an import with scipy installed or not, closestPointFunc being any of the
\* two functions or None
InitImport ==
    /\ \E sp \in SeqsUpTo(Points, MaxImport), ip \in SeqsUpTo(ImportPoints, MaxImport),
          cnt \in Counts, fn \in PointFuncs \cup {"None"} :
            ArgsInit(WeightTable(Len(sp)), EmptyList, ip, sp, <<>>,
                     AllPlusX(Len(sp)), cnt, FromInt(2), fn, FALSE)
    /\ LocalsInit
    /\ KDTree \in BOOLEAN
    /\ NoCall
    /\ NoSession

\* -------------------------------------------------------------- actions
Raise(exc) ==
    /\ pc' = "raised"
    /\ raised' = exc
    /\ UNCHANGED <<session, KDTree, calls, args, closestNeighborCount, locals>>

\* the checks both functions make before anything else; "none" when they pass
UpfrontFailure ==
    IF Truthy(importVertNormals) /\ Len(importVertNormals) # Len(importVertPositions)
    THEN "AssertionError"
    ELSE IF filterByVertNormal /\ ~Truthy(importVertNormals)
    THEN "Exception"
    ELSE IF IsInstanceOfTypeNpArray(allSavedBlendWeights)
            /\ Len(allSavedWeights) # Len(allSavedBlendWeights.vals)
    THEN "AssertionError"
    ELSE "none"

\* closestNeighborCount after "if closestNeighborCount < 1:"
UseEverything(count) == IF count < 1 THEN Len(importVertPositions) ELSE count

\* closestNeighborCountOverride
NeighborCountOverride(count) ==
    IF filterByVertNormal THEN Len(importVertNormals) ELSE count

\* numNeighbors of closestPointWeights
PointNumNeighbors == IF filterByVertNormal THEN Len(importVertPositions) ELSE 1

StartLoop(fname, count, numNeighbors) ==
    \E out \in QueryOutcomes(closestPointFunc, importVertPositions,
                             savedVertPositions, numNeighbors) :
        IF out.state = "raised" THEN Raise(out.exc)
        ELSE /\ pc' = fname
             /\ closestNeighborCount' = count
             /\ useBlendWeights' = IsInstanceOfTypeNpArray(allSavedBlendWeights)
             /\ queried' = TRUE
             /\ distancesArr' = out.ret.distances
             /\ indexArr' = out.ret.indexes
             /\ i' = 0
             /\ UNCHANGED <<session, KDTree, calls, args, closestIndices, closestDistances,
                            normalizedDistances, closestIndex, newWeights,
                            newBlendWeights, raised>>

\* closestNeighborsWeights up to and including the closestPointFunc call
closestNeighborsWeightsEnter ==
    /\ pc \in {"idle", "setWeights"}
    /\ IF UpfrontFailure # "none" THEN Raise(UpfrontFailure)
       ELSE StartLoop("closestNeighborsWeights", UseEverything(closestNeighborCount),
                      NeighborCountOverride(UseEverything(closestNeighborCount)))

\* one pass of "for i in range(len(importVertPositions))" of closestNeighborsWeights
closestNeighborsWeightsIterate ==
    /\ pc = "closestNeighborsWeights"
    /\ i < Len(importVertPositions)
    /\ LET pool == Pool(i + 1)
           numCloseIndices == Len(pool.closestIndices)
       IN  IF numCloseIndices = 1
           THEN /\ newWeights' = Append(newWeights,
                                    allSavedWeights[pool.closestIndices[1] + 1])
                /\ newBlendWeights' =
                      IF useBlendWeights
                      THEN Append(newBlendWeights,
                             allSavedBlendWeights.vals[pool.closestIndices[1] + 1])
                      ELSE newBlendWeights
                /\ closestIndices' = Append(closestIndices, pool.closestIndices)
                /\ closestDistances' = Append(closestDistances, pool.closestDistances)
                /\ normalizedDistances' = Append(normalizedDistances, <<>>)
                /\ i' = i + 1
                /\ UNCHANGED <<session, KDTree, calls, args, closestNeighborCount, pc,
                               useBlendWeights, queried, distancesArr, indexArr,
                               closestIndex, raised>>
           ELSE IF numCloseIndices = 0
           THEN \* avg = 1.0 / len(closestDistances)
                /\ pc' = "raised"
                /\ raised' = "ZeroDivisionError"
                /\ closestIndices' = Append(closestIndices, pool.closestIndices)
                /\ closestDistances' = Append(closestDistances, pool.closestDistances)
                /\ UNCHANGED <<session, KDTree, calls, args, closestNeighborCount,
                               useBlendWeights, queried, distancesArr, indexArr, i,
                               normalizedDistances, closestIndex, newWeights,
                               newBlendWeights>>
           ELSE LET normDists == ReversedNormalizedDistances(pool.closestDistances)
                    sumedWeights == SumedWeights(pool.closestIndices, normDists)
                IN  /\ newWeights' = Append(newWeights, normalizeToOne(sumedWeights))
                    /\ newBlendWeights' =
                          IF useBlendWeights
                          THEN Append(newBlendWeights, sumedWeights)
                          ELSE newBlendWeights
                    /\ closestIndices' = Append(closestIndices, pool.closestIndices)
                    /\ closestDistances' = Append(closestDistances,
                                                  pool.closestDistances)
                    /\ normalizedDistances' = Append(normalizedDistances, normDists)
                    /\ i' = i + 1
                    /\ UNCHANGED <<session, KDTree, calls, args, closestNeighborCount, pc,
                                   useBlendWeights, queried, distancesArr, indexArr,
                                   closestIndex, raised>>

\* the return statement of either function
ReturnWeights ==
    /\ pc \in {"closestNeighborsWeights", "closestPointWeights"}
    /\ i = Len(importVertPositions)
    /\ pc' = "returned"
    /\ UNCHANGED <<session, KDTree, calls, args, closestNeighborCount, locals, raised>>

\* closestPointWeights up to and including the closestPointFunc call
closestPointWeightsEnter ==
    /\ pc \in {"idle", "setWeights"}
    /\ IF UpfrontFailure # "none" THEN Raise(UpfrontFailure)
       ELSE StartLoop("closestPointWeights", closestNeighborCount, PointNumNeighbors)

\* closestNormalMatch: <<>> is None, <<index>> the first candidate that passes
ClosestNormalMatch(t) ==
    LET passing == {j \in 1..Len(distancesArr[t]) :
                       Dot(importVertNormals[t], savedVertNormals[indexArr[t][j] + 1])
                           >= vertNormalTolerance}
    IN  IF passing = {} THEN <<>>
        ELSE <<indexArr[t][CHOOSE j \in passing : \A k \in passing : j <= k]>>

\* "if closestNormalMatch:" truthiness of None or of an integer
MatchIsTruthy(match) == match # <<>> /\ match[1] # 0

\* closestIndex of target t
PointClosestIndex(t) ==
    IF filterByVertNormal /\ MatchIsTruthy(ClosestNormalMatch(t))
    THEN ClosestNormalMatch(t)[1]
    ELSE indexArr[t][1]

\* one pass of "for i in range(len(importVertPositions))" of closestPointWeights
closestPointWeightsIterate ==
    /\ pc = "closestPointWeights"
    /\ i < Len(importVertPositions)
    /\ LET idx == PointClosestIndex(i + 1)
       IN  /\ newWeights' = Append(newWeights, allSavedWeights[idx + 1])
           /\ newBlendWeights' =
                 IF useBlendWeights
                 THEN Append(newBlendWeights, allSavedBlendWeights.vals[idx + 1])
                 ELSE newBlendWeights
           /\ closestIndex' = Append(closestIndex, idx)
    /\ i' = i + 1
    /\ UNCHANGED <<session, KDTree, calls, args, closestNeighborCount, pc, useBlendWeights, queried,
                   distancesArr, indexArr, closestIndices, closestDistances,
                   normalizedDistances, raised>>

Next ==
    \/ closestNeighborsWeightsEnter
    \/ closestNeighborsWeightsIterate
    \/ closestPointWeightsEnter
    \/ closestPointWeightsIterate
    \/ ReturnWeights

Spec == Init /\ [][Next]_vars

\* ------------------------------------------ importSkinChunks / setWeights
\* "if not KDTree: raise ImportError(...)", which both functions start with
\* whatever closestPointFunc is (numpy is taken to be installed)
LibraryCheck == IF ~KDTree THEN "ImportError" ELSE "none"

\* importSkinChunks: the library check, then the SkinChunks are loaded
importSkinChunksEnter ==
    /\ pc = "idle"
    /\ IF LibraryCheck # "none" THEN Raise(LibraryCheck)
       ELSE /\ pc' = "importSkinChunks"
            /\ UNCHANGED <<session, KDTree, calls, args, closestNeighborCount, locals, raised>>

\* setWeights, on its own or after importSkinChunks (importSkin): the library
\* check, then on to the meshes, where one of the resamplers is called with
\* the closestPointFunc that was passed
setWeightsEnter ==
    /\ pc \in {"idle", "importSkinChunks"}
    /\ IF LibraryCheck # "none" THEN Raise(LibraryCheck)
       ELSE /\ pc' = "setWeights"
            /\ UNCHANGED <<session, KDTree, calls, args, closestNeighborCount, locals, raised>>

NextImport ==
    \/ importSkinChunksEnter
    \/ setWeightsEnter
    \/ Next

SpecImport == InitImport /\ [][NextImport]_vars

\* ------------------------------------------------------------ properties
\* distance from import point t to each saved vert of a list of indexes
TrueDistances(t, indices) ==
    [k \in 1..Len(indices) |->
        FromInt(Norm(importVertPositions[t], savedVertPositions[indices[k] + 1]))]

NonDecreasing(dists) ==
    \A a, b \in 1..Len(dists) : a < b => RLe(dists[a], dists[b])

\* number of leading candidates of target t inside the search radius
RadiusPrefixLen(t) ==
    Cardinality({k \in 1..Len(distancesArr[t]) :
        \A m \in 1..k :
            RLe(distancesArr[t][m],
                RMul(distancesArr[t][1], closestNeighborDistMult))})

\* the scenario of the specification, scaled to the lattice: J1 at x=1, J2 at
\* x=3, target at x=0, count 2, mult 2.0
ScenarioArgs ==
    /\ savedVertPositions = <<(<<1, 0, 0>>), (<<3, 0, 0>>)>>
    /\ allSavedWeights = <<(<<One, Zero>>), (<<Zero, One>>)>>
    /\ importVertPositions = <<(<<0, 0, 0>>)>>
    /\ passedNeighborCount = 2
    /\ closestNeighborDistMult = FromInt(2)
    /\ ~filterByVertNormal

\* C1: without normal filtering the pool of every target is the longest prefix
\* of its ascending-distance candidate list that lies within
\* distance[0] * closestNeighborDistMult, cut at closestNeighborCount members;
\* a pool of one member yields that member's weight row unchanged, and the
\* scenario yields [1, 0].
C1_PoolIsRadiusPrefix ==
    ~filterByVertNormal =>
        \A t \in 1..Len(closestIndices) :
            LET n == Min2(closestNeighborCount, RadiusPrefixLen(t))
            IN  /\ NonDecreasing(distancesArr[t])
                /\ distancesArr[t] = TrueDistances(t, indexArr[t])
                /\ closestIndices[t] = SubSeq(indexArr[t], 1, n)
                /\ closestDistances[t] = SubSeq(distancesArr[t], 1, n)
                /\ (n = 1 /\ t <= Len(newWeights)) =>
                      newWeights[t] = allSavedWeights[indexArr[t][1] + 1]
                /\ (ScenarioArgs /\ t <= Len(newWeights)) =>
                      newWeights[t] = <<One, Zero>>

\* C1 witness: the scenario has returned with a pool of one member out of two
\* candidates, the second one being outside the radius
C1_Witness ==
    /\ ScenarioArgs
    /\ pc = "returned"
    /\ distancesArr = <<(<<FromInt(1), FromInt(3)>>)>>
    /\ closestIndices = <<(<<0>>)>>
    /\ newWeights = <<(<<One, Zero>>)>>

\* which of the two functions has been entered
NeighborsRan == pc = "closestNeighborsWeights" \/ Len(closestIndices) > 0
PointRan == pc = "closestPointWeights" \/ Len(closestIndex) > 0

RAbs(a) == IF RLt(a, Zero) THEN RSub(Zero, a) ELSE a
L1(u, v) == RSum([c \in 1..Len(u) |-> RAbs(RSub(u[c], v[c]))])

\* C2: for every pool of k >= 2 members, in ascending order of their distances
\* d_1 <= ... <= d_k to the target (not all zero), the coefficient applied to
\* the i-th member is d_(k+1-i) / (d_1 + ... + d_k); coefficients do not
\* increase with distance; a pool at distances [1, 3] gives a row strictly
\* closer in L1 to the nearer member's row.
C2_ReversedProximityBlend ==
    \A t \in 1..Len(normalizedDistances) :
        LET idx == closestIndices[t]
            k == Len(idx)
            d == TrueDistances(t, idx)
            total == RSum(d)
            coef == normalizedDistances[t]
        IN  (k >= 2 /\ total # Zero) =>
                /\ NonDecreasing(d)
                /\ Len(coef) = k
                /\ \A a \in 1..k : coef[a] = RDiv(d[k + 1 - a], total)
                /\ \A a, b \in 1..k : a < b => RGe(coef[a], coef[b])
                /\ (d = <<FromInt(1), FromInt(3)>>) =>
                      RLt(L1(newWeights[t], allSavedWeights[idx[1] + 1]),
                          L1(newWeights[t], allSavedWeights[idx[2] + 1]))

\* C2 outside the rejected-list fallback: the same statement for the pools
\* whose members passed the scan
C2_HoldsForAcceptedPools ==
    \A t \in 1..Len(normalizedDistances) :
        LET idx == closestIndices[t]
            k == Len(idx)
            d == TrueDistances(t, idx)
            total == RSum(d)
            coef == normalizedDistances[t]
        IN  (k >= 2 /\ total # Zero /\ ~NormalReject(t, idx[1])) =>
                /\ NonDecreasing(d)
                /\ \A a \in 1..k : coef[a] = RDiv(d[k + 1 - a], total)
                /\ \A a, b \in 1..k : a < b => RGe(coef[a], coef[b])
                /\ (d = <<FromInt(1), FromInt(3)>>) =>
                      RLt(L1(newWeights[t], allSavedWeights[idx[1] + 1]),
                          L1(newWeights[t], allSavedWeights[idx[2] + 1]))

\* the candidates of target t whose normal passes the tolerance
PassingCandidates(t) ==
    {j \in 1..Len(indexArr[t]) :
        Dot(importVertNormals[t], savedVertNormals[indexArr[t][j] + 1])
            >= vertNormalTolerance}

\* C3: with normal filtering, closestPointWeights copies for every target the
\* weights of the first candidate in ascending distance order whose normal
\* passes, whatever its index, and of the nearest candidate only if none passes.
C3_FirstNormalMatchCopied ==
    filterByVertNormal =>
        \A t \in 1..Len(closestIndex) :
            LET passing == PassingCandidates(t)
                first == CHOOSE j \in passing : \A m \in passing : j <= m
                expected == IF passing = {} THEN indexArr[t][1]
                            ELSE indexArr[t][first]
            IN  /\ closestIndex[t] = expected
                /\ newWeights[t] = allSavedWeights[expected + 1]

\* C4: with normal filtering, when every candidate of a target is rejected,
\* the pool is the nearest rejected candidates (at most closestNeighborCount)
\* and the blend uses their distances to the target.
C4_FallbackBlendsByDistance ==
    filterByVertNormal =>
        \A t \in 1..Len(closestIndices) :
            PassingCandidates(t) = {} =>
                LET n == Min2(closestNeighborCount, Len(indexArr[t]))
                    d == SubSeq(distancesArr[t], 1, n)
                IN  /\ closestIndices[t] = SubSeq(indexArr[t], 1, n)
                    /\ (n >= 2 /\ t <= Len(newWeights)) =>
                          /\ closestDistances[t] = d
                          /\ normalizedDistances[t] = ReversedNormalizedDistances(d)
                          /\ newWeights[t] =
                                normalizeToOne(SumedWeights(closestIndices[t],
                                    ReversedNormalizedDistances(d)))

\* C5: with normal filtering (both functions), or with closestNeighborCount <= 0
\* (closestNeighborsWeights), the candidate list of every target holds every
\* saved point.
C5_QueryCoversAllSavedPoints ==
    (queried /\ (filterByVertNormal \/ (NeighborsRan /\ passedNeighborCount <= 0))) =>
        \A t \in 1..Len(indexArr) :
            {indexArr[t][k] : k \in 1..Len(indexArr[t])}
                = 0..(Len(savedVertPositions) - 1)

\* blend weights were supplied: a non-empty ndarray
BlendWeightsSupplied ==
    allSavedBlendWeights.kind = "ndarray" /\ Len(allSavedBlendWeights.vals) > 0

\* C6: when blend weights are supplied, closestPointWeights returns one blend
\* weight per target: that of the saved point whose weights were copied.
C6_BlendWeightsFollowCopiedPoint ==
    (pc = "returned" /\ PointRan /\ BlendWeightsSupplied
        /\ Len(allSavedBlendWeights.vals) = Len(allSavedWeights)) =>
        /\ Len(newBlendWeights) = Len(importVertPositions)
        /\ \A t \in 1..Len(newBlendWeights) :
              newBlendWeights[t] = allSavedBlendWeights.vals[closestIndex[t] + 1]

\* C7: a call with supplied blend weights whose count differs from the number
\* of weight rows never reaches the nearest-neighbour query.
C7_BlendCountCheckedBeforeQuery ==
    (queried /\ BlendWeightsSupplied) =>
        Len(allSavedBlendWeights.vals) = Len(allSavedWeights)

IsSimplexRow(row) ==
    /\ \A c \in 1..Len(row) : RGe(row[c], Zero)
    /\ REq(RSum(row), One)

\* C8: when every saved weight row is non-negative and sums to 1, so is every
\* row returned by either function.
C8_ReturnedRowsAreNormalized ==
    (\A j \in 1..Len(allSavedWeights) : IsSimplexRow(allSavedWeights[j])) =>
        \A t \in 1..Len(newWeights) : IsSimplexRow(newWeights[t])

\* C8 witness: a returned blend of two different rows, neither copied
C8_Witness ==
    /\ pc = "returned"
    /\ \E t \in 1..Len(newWeights) :
          /\ t <= Len(closestIndices)
          /\ Len(closestIndices[t]) >= 2
          /\ newWeights[t] = <<Rat(3, 4), Rat(1, 4)>>

\* the unweighted average of weight rows
AverageRow(rows) ==
    [c \in 1..Len(rows[1]) |->
        RDiv(RSum([k \in 1..Len(rows) |-> rows[k][c]]), FromInt(Len(rows)))]

\* C9: a pool of two or more members all at distance zero from the target
\* yields the unweighted average of the members' rows, without raising and
\* without NaN.
C9_CoincidentPoolIsAveraged ==
    \A t \in 1..Len(closestIndices) :
        LET idx == closestIndices[t]
            d == TrueDistances(t, idx)
        IN  (Len(idx) >= 2 /\ \A k \in 1..Len(d) : d[k] = Zero) =>
                /\ t <= Len(newWeights)
                /\ \A c \in 1..Len(newWeights[t]) : ~IsNaN(newWeights[t][c])
                /\ newWeights[t] =
                      AverageRow([k \in 1..Len(idx) |-> allSavedWeights[idx[k] + 1]])

\* C9 outside the rejected-list fallback
C9_HoldsForAcceptedPools ==
    \A t \in 1..Len(closestIndices) :
        LET idx == closestIndices[t]
            d == TrueDistances(t, idx)
        IN  (Len(idx) >= 2 /\ (\A k \in 1..Len(d) : d[k] = Zero)
                /\ ~NormalReject(t, idx[1])) =>
                /\ t <= Len(newWeights)
                /\ newWeights[t] =
                      AverageRow([k \in 1..Len(idx) |-> allSavedWeights[idx[k] + 1]])

\* closestPointWeights has returned, without normal filtering, for import
\* points at the coordinates of the saved points
IdenticalResample ==
    /\ pc = "returned"
    /\ PointRan
    /\ ~filterByVertNormal
    /\ importVertPositions = savedVertPositions

DistinctCoordinates ==
    \A a, b \in 1..Len(savedVertPositions) :
        a # b => savedVertPositions[a] # savedVertPositions[b]

\* C10 as stated: the resample of identical coordinates returns the saved
\* weight rows, in target order.
C10_IdenticalResampleReturnsSource ==
    IdenticalResample => newWeights = allSavedWeights

\* C10 amended: every returned row is the row of a saved point at the target's
\* coordinates (the lowest-indexed one with closestPointBruteForce), and the
\* result is the saved rows themselves when no two saved points share
\* coordinates.
C10_IdenticalResampleReturnsCoincident ==
    IdenticalResample =>
        /\ Len(newWeights) = Len(importVertPositions)
        /\ \A t \in 1..Len(newWeights) :
              /\ savedVertPositions[closestIndex[t] + 1] = importVertPositions[t]
              /\ newWeights[t] = allSavedWeights[closestIndex[t] + 1]
              /\ closestPointFunc = "closestPointBruteForce" =>
                    \A j \in 1..Len(savedVertPositions) :
                        savedVertPositions[j] = importVertPositions[t] =>
                            closestIndex[t] + 1 <= j
        /\ DistinctCoordinates => newWeights = allSavedWeights

\* C10 witness: two saved points at different coordinates resampled onto
\* themselves
C10_Witness ==
    /\ IdenticalResample
    /\ Len(savedVertPositions) = 2
    /\ DistinctCoordinates
    /\ newWeights = allSavedWeights

\* ------------------------------------------ functions applied on their own
\* called(passed) is about to run
Call(fn, arguments) ==
    /\ called = fn
    /\ passed = arguments
    /\ result = [state |-> "pending"]

\* the call ends with an outcome; nothing else is touched
Apply(fn, outcome) ==
    /\ called = fn
    /\ result.state = "pending"
    /\ result' = outcome
    /\ UNCHANGED <<session, KDTree, called, passed, args, closestNeighborCount, pc,
                   locals, raised>>

\* no resampler runs while a function is applied on its own
ResamplerIdle ==
    /\ ArgsInit(<<>>, EmptyList, <<>>, <<>>, <<>>, <<>>, 0, One, "None", FALSE)
    /\ LocalsInit

\* ---- normalizeToOne
\* normalizeToOne(vals) on a list of Python floats or on an ndarray: on a
\* zero divisor "float(val)/sum(vals)" raises with Python floats, where the
\* numpy division answers nan
normalizeToOneOutcome(vals) ==
    IF vals.kind = "list" /\ RSum(vals.vals) = Zero
    THEN Raised("ZeroDivisionError")
    ELSE Returned(normalizeToOne(vals.vals))

normalizeToOneCall ==
    /\ called = "normalizeToOne"
    /\ Apply("normalizeToOne", normalizeToOneOutcome(passed.vals))

\* non-negative entries
Entries == {Zero, Rat(1, 4), Half, One, FromInt(2)}

InitNormalizeToOne ==
    /\ \E v \in SeqsUpTo(Entries, MaxLen), kind \in {"list", "ndarray"} :
          Call("normalizeToOne", [vals |-> [kind |-> kind, vals |-> v]])
    /\ KDTree = TRUE

\* ---- closestPointKdTree / closestPointBruteForce
closestPointKdTreeCall ==
    /\ called = "closestPointKdTree"
    /\ result.state = "pending"
    /\ \E out \in QueryOutcomes("closestPointKdTree", passed.points, passed.targets,
                                passed.numNeighbors) :
          Apply("closestPointKdTree", out)

closestPointBruteForceCall ==
    /\ called = "closestPointBruteForce"
    /\ result.state = "pending"
    /\ \E out \in QueryOutcomes("closestPointBruteForce", passed.points,
                                passed.targets, passed.numNeighbors) :
          Apply("closestPointBruteForce", out)

\* any number of query points and of targets, none included; numNeighbors >= 1
InitClosestPoint ==
    /\ \E fn \in PointFuncs,
          points \in {<<>>} \cup SeqsUpTo(ImportPoints, MaxImport),
          targets \in {<<>>} \cup SeqsUpTo(Points, MaxTargets),
          numNeighbors \in 1..MaxCount :
            Call(fn, [points |-> points, targets |-> targets,
                      numNeighbors |-> numNeighbors])
    /\ KDTree \in BOOLEAN

\* ---- utils.transposeWeights
\* "x in list"
Contains(list, x) == \E k \in 1..Len(list) : list[k] = x

\* list.index(x): the Python position of the first item equal to x
IndexOf(list, x) ==
    (CHOOSE k \in 1..Len(list) :
        list[k] = x /\ \A j \in 1..(k - 1) : list[j] # x) - 1

\* (mutation) no influence is ever reported missing
MissingNone(skinChunkInfNames, skinClusterInfNames) == <<>>

\* missingSkinChunk: the SkinChunk influences the skinCluster does not have
MissingSkinChunk(skinChunkInfNames, skinClusterInfNames) ==
    LET Absent(name) == ~Contains(skinClusterInfNames, name)
    IN  SelectSeq(skinChunkInfNames, Absent)

\* missingSkinCluster, as written: the names of skinChunkInfNames that are
\* not in skinChunkInfNames
MissingSkinCluster(skinChunkInfNames) ==
    LET Absent(name) == ~Contains(skinChunkInfNames, name)
    IN  SelectSeq(skinChunkInfNames, Absent)

\* (mutation) the row in the SkinChunk's own order, cut or zero-filled to the
\* skinCluster's length
TransposedInChunkOrder(chunkWeights, skinChunkInfNames, skinClusterInfNames) ==
    [j \in 1..Len(skinClusterInfNames) |->
        IF j <= Len(chunkWeights) THEN chunkWeights[j] ELSE Zero]

\* transposed: one pass of "for chunkWeights in skinChunkWeights"
Transposed(chunkWeights, skinChunkInfNames, skinClusterInfNames) ==
    [j \in 1..Len(skinClusterInfNames) |->
        IF Contains(skinChunkInfNames, skinClusterInfNames[j])
        THEN chunkWeights[IndexOf(skinChunkInfNames, skinClusterInfNames[j]) + 1]
        ELSE Zero]

\* chunkWeights[chunkIndex] is out of range for some influence
RowTooShort(chunkWeights, skinChunkInfNames, skinClusterInfNames) ==
    \E j \in 1..Len(skinClusterInfNames) :
        /\ Contains(skinChunkInfNames, skinClusterInfNames[j])
        /\ IndexOf(skinChunkInfNames, skinClusterInfNames[j]) >= Len(chunkWeights)

\* the assert statements are executed (the interpreter does not run with -O)
transposeWeights(skinChunkWeights, skinChunkInfNames, skinClusterInfNames) ==
    IF Len(skinChunkWeights) = 0 THEN Raised("IndexError")
    ELSE IF Len(skinChunkWeights[1]) # Len(skinChunkInfNames)
    THEN Raised("AssertionError")
    ELSE IF MissingSkinChunk(skinChunkInfNames, skinClusterInfNames) # <<>>
    THEN Raised("AssertionError")
    ELSE IF MissingSkinCluster(skinChunkInfNames) # <<>>
    THEN Raised("AssertionError")
    ELSE IF \E r \in 1..Len(skinChunkWeights) :
               RowTooShort(skinChunkWeights[r], skinChunkInfNames,
                           skinClusterInfNames)
    THEN Raised("IndexError")
    ELSE Returned([r \in 1..Len(skinChunkWeights) |->
                      Transposed(skinChunkWeights[r], skinChunkInfNames,
                                 skinClusterInfNames)])

transposeWeightsCall ==
    /\ called = "transposeWeights"
    /\ Apply("transposeWeights",
             transposeWeights(passed.skinChunkWeights, passed.skinChunkInfNames,
                              passed.skinClusterInfNames))

Labels == {"A", "B", "C"}
\* rows of one, two and three weights
WeightRows == {<<One>>, <<Rat(3, 10), Rat(7, 10)>>, <<Half, Rat(1, 4), Rat(1, 4)>>}

InitTransposeWeights ==
    /\ \E w \in {<<>>} \cup SeqsUpTo(WeightRows, MaxRows),
          chunkNames \in SeqsUpTo(Labels, MaxLabels),
          clusterNames \in SeqsUpTo(Labels, MaxLabels + 1) :
            Call("transposeWeights",
                 [skinChunkWeights |-> w, skinChunkInfNames |-> chunkNames,
                  skinClusterInfNames |-> clusterNames])
    /\ KDTree = TRUE

\* ---- utils.getVertNeighborSamples
\* A mesh is a ring of verts vertices 0..verts-1, edge e joining e-1 and
\* e % verts, with edge cut left out (cut = 0: the full ring).
Mesh(verts, cut) == [verts |-> verts, cut |-> cut]
Meshes(least, most) ==
    {Mesh(q[1], q[2]) : q \in {r \in (least..most) \X (0..most) : r[2] <= r[1]}}

\* iterGeo.getConnectedVertices() of vertex v
ConnectedVertices(meshShape, v) ==
    {w \in 0..(meshShape.verts - 1) :
        /\ w # v
        /\ \E e \in 1..meshShape.verts :
              e # meshShape.cut /\ {v, w} = {e - 1, e % meshShape.verts}}

\* sorted(list(set(...)))
Sorted(S) ==
    CHOOSE f \in [1..Cardinality(S) -> S] :
        \A a, b \in 1..Cardinality(S) : a < b => f[a] < f[b]

getConnectedVertIDs(meshShape, v) == Sorted(ConnectedVertices(meshShape, v))

\* step: int(totalMeshVerts/neighborSamples), and totalMeshVerts-1 when that is 0
Step(totalMeshVerts, neighborSamples) ==
    LET step == totalMeshVerts \div neighborSamples
    IN  IF step = 0 THEN totalMeshVerts - 1 ELSE step

\* a dict is a function on its keys; range(0, totalMeshVerts, step) refuses
\* a step of 0
getVertNeighborSamples(meshShape, neighborSamples) ==
    IF neighborSamples = 0 THEN Raised("ZeroDivisionError")
    ELSE IF Step(meshShape.verts, neighborSamples) = 0 THEN Raised("ValueError")
    ELSE Returned([v \in {k \in 0..(meshShape.verts - 1) :
                              k % Step(meshShape.verts, neighborSamples) = 0} |->
                      getConnectedVertIDs(meshShape, v)])

getVertNeighborSamplesCall ==
    /\ called = "getVertNeighborSamples"
    /\ Apply("getVertNeighborSamples",
             getVertNeighborSamples(passed.meshShape, passed.neighborSamples))

\* fewer samples than vertices, as many, and more
InitGetVertNeighborSamples ==
    /\ \E meshShape \in Meshes(MaxVerts - 1, MaxVerts),
          neighborSamples \in 0..(MaxVerts + 1) :
          Call("getVertNeighborSamples",
               [meshShape |-> meshShape, neighborSamples |-> neighborSamples])
    /\ KDTree = TRUE

\* ---- SkinChunk.getByVertCountOrder
\* SkinChunk.__init__, as far as the fingerprint goes; it raises when
\* getVertNeighborSamples does
SkinChunk(meshShape, neighborSamples) ==
    [meshVertCount |-> meshShape.verts,
     neighborSamples |-> neighborSamples,
     vertNeighbors |-> IF neighborSamples = 0 THEN <<>>
                       ELSE getVertNeighborSamples(meshShape, neighborSamples).ret]

\* (mutation) the stored and the current neighbors are never compared
FirstMismatchNone(skinChunkNeighbors, checkNeighbors) == {}

\* the first key of "for key in skinChunkNeighbors" at which the loop stops:
\* the current mesh has no such sample, or other neighbors there
FirstMismatch(skinChunkNeighbors, checkNeighbors) ==
    LET stops == {key \in DOMAIN skinChunkNeighbors :
                     \/ key \notin DOMAIN checkNeighbors
                     \/ skinChunkNeighbors[key] # checkNeighbors[key]}
    IN  {key \in stops : \A other \in stops : key <= other}

\* one pass of "for skinChunk in skinChunks": "match" (appended to matches),
\* "skip", or the exception that ends the call
ChunkCheck(meshShape, skinChunk) ==
    IF meshShape.verts # skinChunk.meshVertCount THEN "skip"
    ELSE IF skinChunk.neighborSamples = 0 THEN "skip"
    ELSE LET check == getVertNeighborSamples(meshShape, skinChunk.neighborSamples)
         IN  IF check.state = "raised" THEN check.exc
             ELSE LET first == FirstMismatch(skinChunk.vertNeighbors, check.ret)
                  IN  IF first = {} THEN "match"
                      ELSE IF \E key \in first : key \notin DOMAIN check.ret
                      THEN "KeyError"
                      ELSE "skip"

getByVertCountOrder(meshShape, skinChunks) ==
    LET failing == {c \in 1..Len(skinChunks) :
                       ChunkCheck(meshShape, skinChunks[c]) \notin {"match", "skip"}}
        IsMatch(skinChunk) == ChunkCheck(meshShape, skinChunk) = "match"
    IN  IF failing # {}
        THEN Raised(ChunkCheck(meshShape,
                        skinChunks[CHOOSE c \in failing :
                                      \A other \in failing : c <= other]))
        ELSE Returned(SelectSeq(skinChunks, IsMatch))

getByVertCountOrderCall ==
    /\ called = "getByVertCountOrder"
    /\ Apply("getByVertCountOrder",
             getByVertCountOrder(passed.meshShape, passed.skinChunks))

\* SkinChunks saved from meshes of the two largest sizes, without samples,
\* with fewer samples than vertices and with more
SkinChunks ==
    {SkinChunk(meshShape, neighborSamples) :
        meshShape \in Meshes(MaxVerts - 1, MaxVerts),
        neighborSamples \in (0..2) \cup {MaxVerts + 1}}

InitGetByVertCountOrder ==
    /\ \E meshShape \in Meshes(MaxVerts - 1, MaxVerts),
          skinChunks \in {<<c>> : c \in SkinChunks}
                          \cup {<<c, d>> : c \in SkinChunks, d \in SkinChunks} :
            Call("getByVertCountOrder",
                 [meshShape |-> meshShape, skinChunks |-> skinChunks])
    /\ KDTree = TRUE

InitCalls ==
    /\ ResamplerIdle
    /\ NoSession
    /\ \/ InitNormalizeToOne
       \/ InitClosestPoint
       \/ InitTransposeWeights
       \/ InitGetVertNeighborSamples
       \/ InitGetByVertCountOrder

NextCalls ==
    \/ normalizeToOneCall
    \/ closestPointKdTreeCall
    \/ closestPointBruteForceCall
    \/ transposeWeightsCall
    \/ getVertNeighborSamplesCall
    \/ getByVertCountOrderCall

SpecCalls == InitCalls /\ [][NextCalls]_vars

\* ---------------------------------------------- properties of the calls
Done(fn) == called = fn /\ result.state # "pending"

\* C11: for every non-empty vector of non-negative entries, all-zero vectors
\* included, normalizeToOne returns a vector whose entries sum to 1, and
\* returns the vector itself when it already sums to 1.
C11_NormalizedSumsToOne ==
    Done("normalizeToOne") =>
        /\ result.state = "returned"
        /\ REq(RSum(result.ret), One)
        /\ REq(RSum(passed.vals.vals), One) => result.ret = passed.vals.vals

\* what C11 says does hold for the vectors that do not sum to 0
C11_HoldsForNonzeroSum ==
    (Done("normalizeToOne") /\ RSum(passed.vals.vals) # Zero) =>
        /\ result.state = "returned"
        /\ REq(RSum(result.ret), One)
        /\ REq(RSum(passed.vals.vals), One) => result.ret = passed.vals.vals

\* C12: a vector that sums to exactly 0 is turned into the uniform vector,
\* every entry 1/len, without an exception and without a NaN.
C12_ZeroSumBecomesUniform ==
    (Done("normalizeToOne") /\ RSum(passed.vals.vals) = Zero) =>
        /\ result.state = "returned"
        /\ result.ret = [k \in 1..Len(passed.vals.vals) |->
                            Rat(1, Len(passed.vals.vals))]

\* a zero-sum ndarray of more than one entry comes back as NaNs
C12_ZeroSumNdArrayIsNaN ==
    (Done("normalizeToOne") /\ RSum(passed.vals.vals) = Zero
        /\ passed.vals.kind = "ndarray" /\ Len(passed.vals.vals) > 1) =>
        /\ result.state = "returned"
        /\ \A k \in 1..Len(result.ret) : IsNaN(result.ret[k])

\* an array of n rows of w items each
HasShape(array, n, w) ==
    /\ DOMAIN array = 1..n
    /\ \A r \in 1..n : DOMAIN array[r] = 1..w

\* C13: for n query points, m >= 1 targets and k >= 1, either function (the
\* tree-based one when its library is there) returns distances and indexes
\* of exactly n rows of exactly min(k, m) items; with k = 1, asked for or
\* reached by the clamp, the rows have one item and are not bare scalars.
C13_RowsOfMinKM ==
    \A fn \in PointFuncs :
        (Done(fn) /\ Len(passed.targets) >= 1 /\ passed.numNeighbors >= 1
            /\ (fn = "closestPointBruteForce" \/ KDTree)) =>
            /\ result.state = "returned"
            /\ HasShape(result.ret.distances, Len(passed.points),
                        Min2(passed.numNeighbors, Len(passed.targets)))
            /\ HasShape(result.ret.indexes, Len(passed.points),
                        Min2(passed.numNeighbors, Len(passed.targets)))

\* the tree-based function has answered two query points with one target,
\* two neighbours having been asked for
C13_Witness ==
    /\ Done("closestPointKdTree")
    /\ result.state = "returned"
    /\ Len(passed.points) = 2
    /\ Len(passed.targets) = 1
    /\ passed.numNeighbors = 2
    /\ result.ret.indexes = <<(<<0>>), (<<0>>)>>

\* C14: a query against no target at all raises, in the tree-based and in
\* the brute-force function, instead of returning a result.
C14_EmptyTargetsRaise ==
    \A fn \in PointFuncs :
        (Done(fn) /\ Len(passed.targets) = 0) => result.state = "raised"

\* the brute-force function answers one empty row per query point
C14_BruteForceAnswersEmptyRows ==
    (Done("closestPointBruteForce") /\ Len(passed.targets) = 0) =>
        /\ result.state = "returned"
        /\ HasShape(result.ret.distances, Len(passed.points), 0)
        /\ HasShape(result.ret.indexes, Len(passed.points), 0)

\* C15: with scipy's KDTree missing and the brute-force function selected
\* (closestPointFunc None or closestPointBruteForce), an import through
\* importSkinChunks / setWeights and a direct resampler call do not fail
\* because of the missing library.
C15_BruteForceNeedsNoKDTree ==
    (~KDTree /\ closestPointFunc \in {"None", "closestPointBruteForce"}) =>
        raised # "ImportError"

\* the resamplers themselves do not need the library for brute force: called
\* directly they never end with an ImportError
C15_DirectResamplerNeedsNoKDTree ==
    [][(~KDTree /\ closestPointFunc \in {"None", "closestPointBruteForce"}
           /\ (closestNeighborsWeightsEnter \/ closestPointWeightsEnter))
          => raised' # "ImportError"]_vars

\* the SkinChunk has an influence the skinCluster lacks
SourceLabelAbsent ==
    \E k \in 1..Len(passed.skinChunkInfNames) :
        \A j \in 1..Len(passed.skinClusterInfNames) :
            passed.skinClusterInfNames[j] # passed.skinChunkInfNames[k]

\* C16: transposeWeights returns one row per input row, of the length of
\* skinClusterInfNames; item j is the input row's value at the index of
\* skinClusterInfNames[j] within skinChunkInfNames when that label is there,
\* and 0 otherwise.
C16_RowsFollowClusterOrder ==
    (Done("transposeWeights") /\ result.state = "returned") =>
        /\ Len(result.ret) = Len(passed.skinChunkWeights)
        /\ \A r \in 1..Len(result.ret) :
              /\ Len(result.ret[r]) = Len(passed.skinClusterInfNames)
              /\ \A j \in 1..Len(passed.skinClusterInfNames) :
                    LET at == {k \in 1..Len(passed.skinChunkInfNames) :
                                  passed.skinChunkInfNames[k] =
                                      passed.skinClusterInfNames[j]}
                    IN  IF at = {} THEN result.ret[r][j] = Zero
                        ELSE \E k \in at :
                                /\ \A other \in at : k <= other
                                /\ result.ret[r][j] = passed.skinChunkWeights[r][k]

\* [[0.3, 0.7]] with labels [A, B] -> [B, A, C] has given [[0.7, 0.3, 0.0]]
C16_Witness ==
    /\ Done("transposeWeights")
    /\ passed.skinChunkWeights = <<(<<Rat(3, 10), Rat(7, 10)>>)>>
    /\ passed.skinChunkInfNames = <<"A", "B">>
    /\ passed.skinClusterInfNames = <<"B", "A", "C">>
    /\ result = Returned(<<(<<Rat(7, 10), Rat(3, 10), Zero>>)>>)

\* C17: transposeWeights fails, returning no rows, whenever some SkinChunk
\* influence label is absent from the skinCluster's labels.
C17_AbsentSourceLabelFails ==
    (Done("transposeWeights") /\ SourceLabelAbsent) => result.state = "raised"

\* rows of two weights for [A, C], to be laid out as [A, B]: C is absent and
\* the call has failed on its assertion
C17_Witness ==
    /\ Done("transposeWeights")
    /\ Len(passed.skinChunkWeights) = 2
    /\ Len(passed.skinChunkWeights[1]) = 2
    /\ passed.skinChunkInfNames = <<"A", "C">>
    /\ passed.skinClusterInfNames = <<"A", "B">>
    /\ result = Raised("AssertionError")

\* C18: whenever transposeWeights returns, every output row has the sum of
\* its input row, for every row and every pair of label lists its checks
\* accept.
C18_RowSumsKept ==
    (Done("transposeWeights") /\ result.state = "returned") =>
        \A r \in 1..Len(result.ret) :
            RSum(result.ret[r]) = RSum(passed.skinChunkWeights[r])

NoDuplicates(list) ==
    \A a, b \in 1..Len(list) : list[a] = list[b] => a = b

\* what C18 says does hold when every row has one weight per SkinChunk
\* influence and no label is listed twice
C18_HoldsForWellFormedInput ==
    (Done("transposeWeights") /\ result.state = "returned"
        /\ NoDuplicates(passed.skinChunkInfNames)
        /\ NoDuplicates(passed.skinClusterInfNames)
        /\ \A r \in 1..Len(passed.skinChunkWeights) :
              Len(passed.skinChunkWeights[r]) = Len(passed.skinChunkInfNames)) =>
        \A r \in 1..Len(result.ret) :
            RSum(result.ret[r]) = RSum(passed.skinChunkWeights[r])

\* the stride the sampling is said to use: totalPoints / sampleCount, rounded
\* down, and 1 when that is below 1
Stride(totalPoints, sampleCount) ==
    IF totalPoints \div sampleCount < 1 THEN 1 ELSE totalPoints \div sampleCount

\* C19: getVertNeighborSamples samples the indices 0, s, 2s, ... below
\* totalPoints with s = floor(totalPoints / sampleCount), and s = 1 whenever
\* that quotient is below 1; each sampled index is recorded with its sorted
\* list of adjacent point indices.
C19_EvenStrideAtLeastOne ==
    (Done("getVertNeighborSamples") /\ passed.neighborSamples >= 1) =>
        /\ result.state = "returned"
        /\ DOMAIN result.ret =
              {k \in 0..(passed.meshShape.verts - 1) :
                  k % Stride(passed.meshShape.verts, passed.neighborSamples) = 0}
        /\ \A v \in DOMAIN result.ret :
              /\ \A a, b \in 1..Len(result.ret[v]) :
                    a < b => result.ret[v][a] < result.ret[v][b]
              /\ {result.ret[v][a] : a \in 1..Len(result.ret[v])} =
                    ConnectedVertices(passed.meshShape, v)

\* what C19 says does hold when no more samples than vertices are asked for
C19_HoldsUpToTotalPoints ==
    (Done("getVertNeighborSamples") /\ passed.neighborSamples >= 1
        /\ passed.neighborSamples <= passed.meshShape.verts) =>
        /\ result.state = "returned"
        /\ DOMAIN result.ret =
              {k \in 0..(passed.meshShape.verts - 1) :
                  k % Stride(passed.meshShape.verts, passed.neighborSamples) = 0}
        /\ \A v \in DOMAIN result.ret :
              /\ \A a, b \in 1..Len(result.ret[v]) :
                    a < b => result.ret[v][a] < result.ret[v][b]
              /\ {result.ret[v][a] : a \in 1..Len(result.ret[v])} =
                    ConnectedVertices(passed.meshShape, v)

\* the stored adjacency list of every sampled index of the fingerprint is
\* the mesh's current one
FingerprintAgrees(skinChunk, meshShape) ==
    \A key \in DOMAIN skinChunk.vertNeighbors :
        /\ key < meshShape.verts
        /\ skinChunk.vertNeighbors[key] = Sorted(ConnectedVertices(meshShape, key))

\* C20: getByVertCountOrder reports a SkinChunk as matching the mesh if and
\* only if its saved vertex count is the mesh's and, for every sampled index
\* of the stored fingerprint, the stored adjacency list is the mesh's
\* current one.
C20_MatchIffCountAndFingerprint ==
    Done("getByVertCountOrder") =>
        /\ result.state = "returned"
        /\ LET Matches(c) == /\ c.meshVertCount = passed.meshShape.verts
                              /\ FingerprintAgrees(c, passed.meshShape)
           IN  result.ret = SelectSeq(passed.skinChunks, Matches)

\* C20, amended: ... if and only if it was saved with neighbor samples, its
\* saved vertex count is the mesh's and, for every sampled index of the
\* stored fingerprint, the stored adjacency list is the mesh's current
\* one; a SkinChunk saved without samples is never reported.
C20_MatchIffSampledCountAndFingerprint ==
    Done("getByVertCountOrder") =>
        /\ result.state = "returned"
        /\ LET Matches(c) == /\ c.neighborSamples # 0
                              /\ c.meshVertCount = passed.meshShape.verts
                              /\ FingerprintAgrees(c, passed.meshShape)
           IN  result.ret = SelectSeq(passed.skinChunks, Matches)

\* two SkinChunks of the mesh's vertex count and of the same samples, whose
\* fingerprints differ at one sampled index only: the first is reported,
\* the second is not
C20_Witness ==
    /\ Done("getByVertCountOrder")
    /\ Len(passed.skinChunks) = 2
    /\ result = Returned(<<passed.skinChunks[1]>>)
    /\ passed.skinChunks[2].meshVertCount = passed.meshShape.verts
    /\ passed.skinChunks[2].neighborSamples = passed.skinChunks[1].neighborSamples
    /\ Cardinality({key \in DOMAIN passed.skinChunks[1].vertNeighbors :
                        passed.skinChunks[1].vertNeighbors[key] #
                            passed.skinChunks[2].vertNeighbors[key]}) = 1

\* ------------------------------------------------ bounds of the session
MaxFiles == 3
MaxTime == 3
MaxSceneVerts == 2
MaxUndo == 2
MaxMeshes == 2
MaxChunks == 2

\* ---- importSkinChunks
\* A .sknr file is one export: the SkinChunks of the named mesh shapes, all
\* created at tick "time"; a path can name no file at all.
MeshNames == {"A", "B"}
SknrFile(names, time) == [isfile |-> TRUE, names |-> names, time |-> time]
MissingFile == [isfile |-> FALSE, names |-> <<>>, time |-> 0]
SknrFiles ==
    {SknrFile(names, time) :
        names \in {<<"A">>, <<"B">>, <<"A", "B">>, <<"B", "A">>},
        time \in 1..MaxTime}

\* pickle.load(f): the SkinChunks of a file, as [meshShapeName, creationTime]
TheseChunks(file) ==
    [k \in 1..Len(file.names) |->
        [meshShapeName |-> file.names[k], creationTime |-> file.time]]

\* skinChunks after "for fPath in filePaths: ... skinChunks.extend(theseChunks)"
RECURSIVE LoadedChunks(_)
LoadedChunks(filePaths) ==
    IF filePaths = <<>> THEN <<>>
    ELSE LoadedChunks(SubSeq(filePaths, 1, Len(filePaths) - 1))
            \o TheseChunks(filePaths[Len(filePaths)])

\* skinChunks.remove(checkChunk): SkinChunk defines no __eq__, so the object
\* itself is looked for; kept holds the objects by their position in the
\* loaded list
Remove(kept, check) ==
    LET Other(c) == c # check
    IN  SelectSeq(kept, Other)

\* "Remove anything old": this walks the copy skinChunks[:] (position this),
\* check walks chunkCreationTimes; both hold every loaded SkinChunk.
\* list.remove raises ValueError for an object that is not in the list.
RECURSIVE RemoveOld(_, _, _, _)
RemoveOld(loaded, kept, this, check) ==
    IF this > Len(loaded) THEN Returned(kept)
    ELSE IF check > Len(loaded) THEN RemoveOld(loaded, kept, this + 1, 1)
    ELSE IF /\ loaded[this].meshShapeName = loaded[check].meshShapeName
            /\ loaded[this].creationTime > loaded[check].creationTime
    THEN IF \A k \in 1..Len(kept) : kept[k] # check
         THEN Raised("ValueError")
         ELSE RemoveOld(loaded, Remove(kept, check), this, check + 1)
    ELSE RemoveOld(loaded, kept, this, check + 1)

\* the returned list holds the loaded SkinChunks by their position in the
\* loaded list
importSkinChunks(filePaths) ==
    IF LibraryCheck # "none" THEN Raised(LibraryCheck)
    ELSE IF \E f \in 1..Len(filePaths) : ~filePaths[f].isfile THEN Raised("IOError")
    ELSE LET loaded == LoadedChunks(filePaths)
         IN  RemoveOld(loaded, [k \in 1..Len(loaded) |-> k], 1, 1)

importSkinChunksCall ==
    /\ called = "importSkinChunks"
    /\ Apply("importSkinChunks", importSkinChunks(passed.filePaths))

\* any list of files, the empty one and lists naming a missing file included
InitImportSkinChunks ==
    /\ \E filePaths \in {<<>>} \cup SeqsUpTo(SknrFiles \cup {MissingFile}, MaxFiles) :
          Call("importSkinChunks", [filePaths |-> filePaths])
    /\ KDTree = TRUE
    /\ NoSession

\* ---- exportSkin
\* The Python values True / False / None are written "True", "False", "None".
\* exportSkinChunks(filePath, skinChunks) without version control: an
\* existing read-only file is refused; open(filePath, 'wb') creates or
\* truncates the file, which the directory must allow for a new one
exportSkinChunks(at) ==
    IF at.file = "readonly"
    THEN [result |-> Returned("False"), disk |-> at]
    ELSE IF at.file = "absent" /\ ~at.dirWritable
    THEN [result |-> Raised("PermissionError"), disk |-> at]
    ELSE [result |-> Returned("True"),
          disk |-> [at EXCEPT !.file = "writable", !.written = TRUE]]

\* exportSkin after exportSkinChunks was called: its return value is dropped
exportSkinAfterExport(export) ==
    IF export.result.state = "raised" THEN export
    ELSE [export EXCEPT !.result = Returned("True")]

\* exportSkin(items, filePath): meshes is what getMeshVertIds finds ("none",
\* "unskinned", "skinned"), filePath is "None", a path with a wrong extension
\* ("other") or a .sknr path, dialog is what mc.fileDialog2 answers when it
\* is asked, generate is how generateSkinChunks ends ("raise", "cancel":
\* None after the progress window was cancelled, "chunks")
exportSkin(arguments, at) ==
    LET Plain(value) == [result |-> Returned(value), disk |-> at]
    IN  IF arguments.meshes = "none" THEN Plain("False")
        ELSE IF arguments.meshes = "unskinned" THEN Plain("False")
        ELSE IF arguments.filePath = "other" THEN Plain("False")
        ELSE IF arguments.filePath = "None" /\ arguments.dialog = "cancel"
        THEN Plain("None")
        ELSE IF arguments.generate = "raise" THEN Plain("False")
        ELSE IF arguments.generate = "cancel" THEN Plain("None")
        ELSE exportSkinAfterExport(exportSkinChunks(at))

exportSkinCall ==
    /\ called = "exportSkin"
    /\ result.state = "pending"
    /\ result' = exportSkin(passed, disk).result
    /\ disk' = exportSkin(passed, disk).disk
    /\ UNCHANGED <<maya, KDTree, called, passed, args, closestNeighborCount, pc,
                   locals, raised>>

InitExportSkin ==
    /\ \E meshes \in {"none", "unskinned", "skinned"},
          filePath \in {"None", "other", "sknr"},
          dialog \in {"cancel", "sknr"},
          generate \in {"raise", "cancel", "chunks"} :
            Call("exportSkin", [meshes |-> meshes, filePath |-> filePath,
                                dialog |-> dialog, generate |-> generate])
    /\ \E file \in {"absent", "writable", "readonly"}, dirWritable \in BOOLEAN :
          disk = [file |-> file, dirWritable |-> dirWritable, written |-> FALSE]
    /\ NoMaya
    /\ KDTree = TRUE

\* ---- plugin_set_weights.SkinnerSetWeights
\* The skinCluster of the scene's mesh: one weight (of the one influence the
\* command addresses) and one blend weight per vertex; position v + 1 is
\* vertex v.
SceneWeightValues == {Zero, One}
SceneBlendValues == {Zero, Half}
Scenes ==
    {[weights |-> w, blendWeights |-> b] :
        w \in [1..MaxSceneVerts -> SceneWeightValues],
        b \in [1..MaxSceneVerts -> SceneBlendValues]}

\* getMObjectForVertIndices(importVertNames): the addressed vertices, in
\* vertex order
VertexComponents ==
    {comp \in {<<>>} \cup SeqsUpTo(0..(MaxSceneVerts - 1), MaxSceneVerts) :
        \A a, b \in 1..Len(comp) : a < b => comp[a] < comp[b]}

\* MFnSkinCluster.getBlendWeights(meshDagPath, importVertexCompObj), and the
\* old weights that setWeights(..., returnOldWeights=True) returns
GetValues(array, comp) == [k \in 1..Len(comp) |-> array[comp[k] + 1]]

\* MFnSkinCluster.setWeights / setBlendWeights on the component
SetValues(array, comp, values) ==
    [p \in 1..Len(array) |->
        IF \E k \in 1..Len(comp) : comp[k] + 1 = p
        THEN values[CHOOSE k \in 1..Len(comp) : comp[k] + 1 = p]
        ELSE array[p]]

\* "if arrayBlendWeights: mFnSkinCluster.setBlendWeights(...)"
BlendWeightsAfter(mesh, values) ==
    IF Len(values.arrayBlendWeights) > 0
    THEN SetValues(mesh.blendWeights, values.importVertexCompObj,
                   values.arrayBlendWeights)
    ELSE mesh.blendWeights

\* (mutation) the previous values are the new ones
PrevValueForgotten(newValue, mesh, values) == newValue

\* self.prevValue when action(values) is through: the copy of self.newValue
\* with the weights and the blend weights that were found on the component
PrevValueAfter(newValue, mesh, values) ==
    [newValue EXCEPT
        !.arrayWeights = GetValues(mesh.weights, values.importVertexCompObj),
        !.arrayBlendWeights = GetValues(mesh.blendWeights,
                                        values.importVertexCompObj)]

\* SkinnerSetWeights.action(values) of the command self
action(self, values) ==
    /\ command' = [self EXCEPT
                      !.prevValue = PrevValueAfter(self.newValue, scene, values)]
    /\ scene' = [weights |-> SetValues(scene.weights, values.importVertexCompObj,
                                       values.arrayWeights),
                 blendWeights |-> BlendWeightsAfter(scene, values)]

\* what stays as it is while the command runs
CommandFrame ==
    UNCHANGED <<disk, undoQueue, frame, KDTree, called, passed, args, closestNeighborCount, pc,
                locals, raised>>

\* SkinnerSetWeights.doIt(argList): -help prints and returns True; a
\* missing required flag and a blendWeights list of another length than
\* importVertNames end in mc.error, which raises RuntimeError; otherwise
\* self.newValue is stored and redoIt() runs
doIt ==
    /\ called = "setSkinnerWeights"
    /\ result.state = "pending"
    /\ IF passed.help
       THEN /\ result' = Returned("True")
            /\ UNCHANGED <<scene, command, history>>
       ELSE IF \/ ~passed.requiredFlags
               \/ /\ passed.blendWeightsFlag
                  /\ Len(passed.blendWeights) # Len(passed.importVertNames)
       THEN /\ result' = Raised("RuntimeError")
            /\ UNCHANGED <<scene, command, history>>
       ELSE LET newValue == [importVertexCompObj |-> passed.importVertNames,
                             infIndexes |-> passed.infIndexes,
                             arrayWeights |-> passed.weights,
                             arrayBlendWeights |-> IF passed.blendWeightsFlag
                                                   THEN passed.blendWeights
                                                   ELSE <<>>]
            IN  /\ action([command EXCEPT !.newValue = newValue, !.queue = "done"],
                          newValue)
                /\ history' = [history EXCEPT !.before = scene, !.after = scene']
                /\ result' = Returned("None")
    /\ CommandFrame

\* Maya's undo: the command was done or redone last
undoIt ==
    /\ called = "setSkinnerWeights"
    /\ command.queue = "done"
    /\ history.undos < MaxUndo
    /\ action([command EXCEPT !.queue = "undone"], command.prevValue)
    /\ history' = [history EXCEPT !.undos = @ + 1]
    /\ UNCHANGED result
    /\ CommandFrame

\* Maya's redo: the command was undone last
redoIt ==
    /\ called = "setSkinnerWeights"
    /\ command.queue = "undone"
    /\ action([command EXCEPT !.queue = "done"], command.newValue)
    /\ history' = [history EXCEPT !.redos = @ + 1]
    /\ UNCHANGED result
    /\ CommandFrame

\* the command on any scene: -help or not, the required flags given or one
\* missing, as many weights as vertices, -blendWeights given (with any
\* number of values) or not
InitSetSkinnerWeights ==
    /\ scene \in Scenes
    /\ command = NewCommand
    /\ history = NoHistory
    /\ undoQueue = <<>>
    /\ frame = NoFrame
    /\ disk = NoFile
    /\ \E comp \in VertexComponents, flags \in {"all", "help", "missing"},
          bw \in {<<>>} \cup SeqsUpTo(SceneBlendValues \cup {One}, MaxSceneVerts),
          flag \in BOOLEAN :
          /\ ~flag => bw = <<>>
          /\ \E w \in [1..Len(comp) -> SceneWeightValues \cup {Half}] :
                Call("setSkinnerWeights",
                     [help |-> flags = "help", requiredFlags |-> flags # "missing",
                      importVertNames |-> comp, infIndexes |-> <<0>>,
                      weights |-> w, blendWeightsFlag |-> flag,
                      blendWeights |-> bw])
    /\ KDTree = TRUE

\* ---- mc.undoInfo
\* Maya's undo queue, as far as chunks go: the openChunk / closeChunk calls
\* in the order they were made
OpenChunk(queue, chunkName) == Append(queue, [op |-> "open", chunkName |-> chunkName])
CloseChunk(queue, chunkName) ==
    Append(queue, [op |-> "close", chunkName |-> chunkName])

\* ---- setWeights, mesh by mesh
\* neighborsMatch of setWeights: TRUE to start with, and compared only under
\* "if storedVertNeightbors:"; the exception when the comparison raises
neighborsMatch(meshShape, skinChunk) ==
    IF DOMAIN skinChunk.vertNeighbors = {} THEN "match"
    ELSE LET current == getVertNeighborSamples(meshShape, skinChunk.neighborSamples)
         IN  IF current.state = "raised" THEN current.exc
             ELSE LET first == FirstMismatch(skinChunk.vertNeighbors, current.ret)
                  IN  IF first = {} THEN "match"
                      ELSE IF \E key \in first : key \notin DOMAIN current.ret
                      THEN "KeyError"
                      ELSE "mismatch"

\* "SkinChunk Import" of a SkinChunk found by mesh name: thisRetData
\* ["importMethod"] and doPostSmooth, or the exception
ImportBySkinChunk(meshShape, skinChunk, postSmooth) ==
    IF meshShape.verts = skinChunk.meshVertCount
    THEN LET match == neighborsMatch(meshShape, skinChunk)
         IN  IF match = "match"
             THEN Returned([importMethod |-> "Name Match (SkinChunk) : Vert ID & Order Match",
                            doPostSmooth |-> 0])
             ELSE IF match = "mismatch"
             THEN Returned([importMethod |-> "Name Match (SkinChunk) : Vert order mismatch",
                            doPostSmooth |-> postSmooth])
             ELSE Raised(match)
    ELSE Returned([importMethod |-> "Name Match (SkinChunk) : Vert count mismatch",
                   doPostSmooth |-> postSmooth])

\* "if missingInfs and existingSkinClusters: setToBindPose = True": the
\* variable of the function body, which is the parameter itself
SetToBindPose(setToBindPose, argument, mesh) ==
    IF mesh.missingInfs /\ mesh.existingSkinClusters THEN TRUE ELSE setToBindPose

\* what stays as it is while setWeights runs
SetWeightsFrame ==
    UNCHANGED <<disk, scene, command, history, KDTree, called, passed, args,
                closestNeighborCount, pc, locals, raised>>

\* setWeights up to the mesh loop: the library checks, the "setWeights"
\* chunk, validateInteractiveNormalization (which raises when the user
\* refuses the conversion; the chunk it opens itself is closed in its own
\* finally clause)
setWeightsOpen ==
    /\ called = "setWeights"
    /\ frame.pc = "start"
    /\ IF LibraryCheck # "none"
       THEN /\ frame' = [frame EXCEPT !.pc = "done"]
            /\ result' = Raised(LibraryCheck)
            /\ UNCHANGED undoQueue
       ELSE /\ undoQueue' = OpenChunk(undoQueue, "setWeights")
            /\ frame' = IF passed.normalization = "Exit"
                        THEN [frame EXCEPT !.pc = "finally",
                                           !.outcome = Raised("Exception")]
                        ELSE [frame EXCEPT !.pc = "mesh", !.mesh = 1]
            /\ UNCHANGED result
    /\ SetWeightsFrame

\* one pass of "for meshShape in meshShapeVertIds", up to the weights being
\* ready to be applied and the "setWeights undoHack" chunk being opened.
\* thisRetData.setToBindPose and .doPostSmooth record the values of these
\* two locals for the mesh.
setWeightsMesh ==
    /\ called = "setWeights"
    /\ frame.pc = "mesh"
    /\ frame.mesh <= Len(passed.meshes)
    /\ LET mesh == passed.meshes[frame.mesh]
           pose == SetToBindPose(frame.setToBindPose, passed.setToBindPose, mesh)
           import == ImportBySkinChunk(mesh.meshShape, mesh.skinChunk,
                                       passed.postSmooth)
           Data(method, success, smooth) ==
               [mesh |-> frame.mesh, importMethod |-> method, success |-> success,
                setToBindPose |-> pose, doPostSmooth |-> smooth]
       IN  IF mesh.progress = "cancel"
           THEN /\ frame' = [frame EXCEPT !.pc = "finally",
                                          !.outcome = Returned("None")]
                /\ UNCHANGED undoQueue
           ELSE IF pose /\ mesh.existingSkinClusters /\ mesh.bindPoseFails
           THEN /\ frame' = [frame EXCEPT
                                !.setToBindPose = pose,
                                !.ret = Append(@, Data("Unable to set bindpose: No import performed",
                                                       FALSE, passed.postSmooth)),
                                !.mesh = @ + 1]
                /\ UNCHANGED undoQueue
           ELSE IF mesh.apply = "Exception"
           THEN /\ frame' = [frame EXCEPT !.setToBindPose = pose, !.pc = "finally",
                                          !.outcome = Raised("Exception")]
                /\ UNCHANGED undoQueue
           ELSE IF import.state = "raised"
           THEN /\ frame' = [frame EXCEPT !.setToBindPose = pose, !.pc = "finally",
                                          !.outcome = import]
                /\ UNCHANGED undoQueue
           ELSE /\ frame' = [frame EXCEPT
                                !.setToBindPose = pose,
                                !.thisRetData = Data(import.ret.importMethod, TRUE,
                                                     import.ret.doPostSmooth),
                                !.pc = "apply"]
                /\ undoQueue' = OpenChunk(undoQueue, "setWeights undoHack")
    /\ UNCHANGED result
    /\ SetWeightsFrame

\* (mutation) the chunk is closed after the try statement, not in a finally
\* clause
UndoHackClosedAfterTry(queue, apply) ==
    IF apply = "TypeError" THEN queue ELSE CloseChunk(queue, "setWeights undoHack")

\* "finally: mc.undoInfo(closeChunk=True, chunkName="setWeights undoHack")",
\* however the weights were applied
UndoHackClosed(queue, apply) == CloseChunk(queue, "setWeights undoHack")

\* the rest of the pass: the weights are set inside try / except RuntimeError
\* / finally, which closes the "setWeights undoHack" chunk; another exception
\* goes on to the outer finally clause
setWeightsApply ==
    /\ called = "setWeights"
    /\ frame.pc = "apply"
    /\ undoQueue' = UndoHackClosed(undoQueue, passed.meshes[frame.mesh].apply)
    /\ LET mesh == passed.meshes[frame.mesh]
       IN  frame' =
             IF mesh.apply = "TypeError"
             THEN [frame EXCEPT !.pc = "finally", !.outcome = Raised("TypeError")]
             ELSE [frame EXCEPT
                      !.ret = Append(@, [frame.thisRetData EXCEPT
                                            !.success = mesh.apply # "RuntimeError"]),
                      !.mesh = @ + 1,
                      !.pc = "mesh"]
    /\ UNCHANGED result
    /\ SetWeightsFrame

\* the outer finally clause, reached from the end of the loop, from the
\* return of a cancelled import or from an exception
setWeightsFinally ==
    /\ called = "setWeights"
    /\ \/ frame.pc = "finally"
       \/ frame.pc = "mesh" /\ frame.mesh > Len(passed.meshes)
    /\ undoQueue' = CloseChunk(undoQueue, "setWeights")
    /\ result' = IF frame.pc = "finally" THEN frame.outcome ELSE Returned(frame.ret)
    /\ frame' = [frame EXCEPT !.pc = "done"]
    /\ SetWeightsFrame

\* what there is to know about one mesh of the call
MeshCase(progress, missingInfs, existing, fails, apply, meshShape, skinChunk) ==
    [progress |-> progress, missingInfs |-> missingInfs,
     existingSkinClusters |-> existing,
     bindPoseFails |-> fails, apply |-> apply, meshShape |-> meshShape,
     skinChunk |-> skinChunk]

\* a mesh whose SkinChunk was saved from it, with one sample
SavedMesh == Mesh(MaxVerts - 1, 0)
MeshCases ==
    {MeshCase("cancel", FALSE, FALSE, FALSE, "ok", SavedMesh, SkinChunk(SavedMesh, 1)),
     MeshCase("go", FALSE, FALSE, FALSE, "Exception", SavedMesh,
              SkinChunk(SavedMesh, 1))}
    \cup {MeshCase("go", missing, existing, fails, apply, SavedMesh,
                   SkinChunk(SavedMesh, 1)) :
             missing \in BOOLEAN, existing \in BOOLEAN, fails \in BOOLEAN,
             apply \in {"ok", "RuntimeError", "TypeError"}}

StartFrame == [NoFrame EXCEPT !.pc = "start"]

\* setWeights on one mesh or more, each in any of the cases
InitSetWeightsMeshes ==
    /\ \E meshes \in SeqsUpTo(MeshCases, MaxMeshes), pose \in BOOLEAN,
          normalization \in {"Convert", "Exit"} :
          /\ Call("setWeights", [meshes |-> meshes, setToBindPose |-> pose,
                                 normalization |-> normalization, postSmooth |-> 2])
          /\ frame = [StartFrame EXCEPT !.setToBindPose = pose]
    /\ undoQueue = <<>>
    /\ disk = NoFile
    /\ scene = [weights |-> <<>>, blendWeights |-> <<>>]
    /\ command = NewCommand
    /\ history = NoHistory
    /\ KDTree \in BOOLEAN

\* setWeights on one mesh, of any shape, with a SkinChunk of its name that
\* was saved from any shape, with samples or without
InitSetWeightsByVertId ==
    /\ \E meshShape \in Meshes(MaxVerts - 1, MaxVerts), skinChunk \in SkinChunks :
          Call("setWeights",
               [meshes |-> <<MeshCase("go", FALSE, FALSE, FALSE, "ok", meshShape,
                                      skinChunk)>>,
                setToBindPose |-> FALSE, normalization |-> "Convert",
                postSmooth |-> 2])
    /\ frame = StartFrame
    /\ undoQueue = <<>>
    /\ disk = NoFile
    /\ scene = [weights |-> <<>>, blendWeights |-> <<>>]
    /\ command = NewCommand
    /\ history = NoHistory
    /\ KDTree = TRUE

\* ---- window.App.importSkin
\* core.importSkin as App.importSkin sees it: it ends before setWeights is
\* reached ("False": nothing to import on, a wrong extension; "raised":
\* importSkinChunks failed), or after setWeights opened and closed its chunk
\* ("False": setWeights raised; "dict": its results)
coreImportSkin(queue, import) ==
    IF import.setWeightsRan
    THEN CloseChunk(OpenChunk(queue, "setWeights"), "setWeights")
    ELSE queue

\* App.importSkin(mode): nothing selected, no path chosen and a path that is
\* no file end the method before anything is done; otherwise the chunk is
\* opened (without a name), core.importSkin runs, and a dialog is shown when
\* it returned False
AppImportSkin ==
    /\ called = "App.importSkin"
    /\ result.state = "pending"
    /\ IF passed.selection = "none" \/ passed.paths \in {"none", "missing"}
       THEN /\ result' = Returned("None")
            /\ UNCHANGED undoQueue
       ELSE /\ undoQueue' = coreImportSkin(OpenChunk(undoQueue, ""), passed.import)
            /\ result' = IF passed.import.result = "raised" THEN Raised("ValueError")
                         ELSE Returned("None")
    /\ UNCHANGED <<disk, scene, command, history, frame, KDTree, called, passed,
                   args, closestNeighborCount, pc, locals, raised>>

\* the ways core.importSkin ends
ImportEnds ==
    {[result |-> "dict", setWeightsRan |-> TRUE],
     [result |-> "False", setWeightsRan |-> TRUE],
     [result |-> "False", setWeightsRan |-> FALSE],
     [result |-> "raised", setWeightsRan |-> FALSE]}

InitAppImportSkin ==
    /\ \E selection \in {"none", "mesh"}, paths \in {"none", "missing", "sknr"},
          import \in ImportEnds :
          Call("App.importSkin", [selection |-> selection, paths |-> paths,
                                  import |-> import])
    /\ disk = NoFile
    /\ NoMaya
    /\ KDTree = TRUE

\* ---- UberChunk
\* what is stored for one vertex of one SkinChunk: the value itself does not
\* matter to UberChunk, only which vertex of which SkinChunk it was saved for
VertDatum(c, k, attr) == [chunk |-> c, vert |-> k - 1, attr |-> attr]

\* the weights saved for vertex k over w influences: w different values that
\* add up to one
SavedRow(w, k) ==
    LET head == [j \in 1..(w - 1) |-> Rat(j + k - 1, 10)]
    IN  Append(head, RSub(One, RSum(head)))

\* the c-th SkinChunk of a list, as SkinChunk.__init__ builds it from one
\* list of verts: one leaf name per influence, no name twice, and one item
\* per vertex in every array.  A SkinChunk pickled before 1.1.0 has no
\* vertPositionsPreDeformed / normalsPreDeformed attribute.
SavedSkinChunk(c, influences, numVerts, hasPreDeformed) ==
    [influences |-> influences,
     weights |-> [k \in 1..numVerts |-> SavedRow(Len(influences), k)],
     blendWeights |-> [k \in 1..numVerts |-> Zero],
     vertPositions |-> [k \in 1..numVerts |-> VertDatum(c, k, "vertPositions")],
     normals |-> [k \in 1..numVerts |-> VertDatum(c, k, "normals")],
     hasPreDeformed |-> hasPreDeformed,
     vertPositionsPreDeformed |->
         IF hasPreDeformed
         THEN [k \in 1..numVerts |-> VertDatum(c, k, "vertPositionsPreDeformed")]
         ELSE <<>>,
     normalsPreDeformed |->
         IF hasPreDeformed
         THEN [k \in 1..numVerts |-> VertDatum(c, k, "normalsPreDeformed")]
         ELSE <<>>]

\* Chunk.getVertPositions(preDeformed)
getVertPositions(skinChunk, preDeformed) ==
    IF preDeformed /\ skinChunk.hasPreDeformed
    THEN skinChunk.vertPositionsPreDeformed
    ELSE skinChunk.vertPositions

\* Chunk.getAllNormals(preDeformed)
getAllNormals(skinChunk, preDeformed) ==
    IF preDeformed /\ skinChunk.hasPreDeformed
    THEN skinChunk.normalsPreDeformed
    ELSE skinChunk.normals

\* Chunk.__init__: every array starts empty
NewChunk ==
    [influences |-> <<>>, weights |-> <<>>, blendWeights |-> <<>>,
     vertPositions |-> <<>>, vertPositionsPreDeformed |-> <<>>,
     normals |-> <<>>, normalsPreDeformed |-> <<>>, totalMeshVerts |-> 0]

\* "for i,inf in enumerate(chunkInfs): if inf not in self.influences:
\*  self.influences.append(inf)", from item "at" on
RECURSIVE AppendNewInfluences(_, _, _)
AppendNewInfluences(influences, chunkInfs, at) ==
    IF at > Len(chunkInfs) THEN influences
    ELSE AppendNewInfluences(
             IF Contains(influences, chunkInfs[at]) THEN influences
             ELSE Append(influences, chunkInfs[at]),
             chunkInfs, at + 1)

\* the first loop over self.skinChunks, from the c-th SkinChunk on
RECURSIVE UberChunkCollect(_, _, _)
UberChunkCollect(self, skinChunks, c) ==
    IF c > Len(skinChunks) THEN self
    ELSE LET skinChunk == skinChunks[c]
         IN  UberChunkCollect(
                 [self EXCEPT
                    !.influences =
                        AppendNewInfluences(@, skinChunk.influences, 1),
                    !.vertPositions = @ \o getVertPositions(skinChunk, FALSE),
                    !.vertPositionsPreDeformed =
                        @ \o getVertPositions(skinChunk, TRUE),
                    !.normals = @ \o getAllNormals(skinChunk, FALSE),
                    !.normalsPreDeformed = @ \o getAllNormals(skinChunk, TRUE)],
                 skinChunks, c + 1)

\* "for i in range(len(cWeights)):
\*  weights[self.influences.index(chunkInfs[i])] = cWeights[i]", from i = "at" on
RECURSIVE PlaceWeights(_, _, _, _, _)
PlaceWeights(weights, cWeights, chunkInfs, influences, at) ==
    IF at > Len(cWeights) THEN weights
    ELSE PlaceWeights(
             [weights EXCEPT ![IndexOf(influences, chunkInfs[at]) + 1] = cWeights[at]],
             cWeights, chunkInfs, influences, at + 1)

\* (mutation) the weights stay in the order of the SkinChunk's own influences
UberRowInChunkOrder(cWeights, chunkInfs, influences) ==
    [j \in 1..Len(influences) |->
        IF j <= Len(cWeights) THEN cWeights[j] ELSE Zero]

\* the row appended for one vertex: a copy of zeroWeights with the SkinChunk's
\* weights placed under the UberChunk's influences
UberRow(cWeights, chunkInfs, influences) ==
    PlaceWeights([j \in 1..Len(influences) |-> Zero], cWeights, chunkInfs,
                 influences, 1)

\* the second loop over self.skinChunks, from the c-th SkinChunk on
RECURSIVE UberChunkWeights(_, _, _)
UberChunkWeights(self, skinChunks, c) ==
    IF c > Len(skinChunks) THEN self
    ELSE LET skinChunk == skinChunks[c]
             rows == [k \in 1..Len(skinChunk.weights) |->
                         UberRow(skinChunk.weights[k], skinChunk.influences,
                                 self.influences)]
         IN  UberChunkWeights(
                 [self EXCEPT !.weights = @ \o rows,
                              !.blendWeights = @ \o skinChunk.blendWeights],
                 skinChunks, c + 1)

\* UberChunk.__init__(skinChunks) on a list of SkinChunks
UberChunk(skinChunks) ==
    LET self == UberChunkWeights(UberChunkCollect(NewChunk, skinChunks, 1),
                                 skinChunks, 1)
    IN  [self EXCEPT !.totalMeshVerts = Len(self.weights)]

UberChunkCall ==
    /\ called = "UberChunk"
    /\ Apply("UberChunk", Returned(UberChunk(passed.skinChunks)))

\* the influence lists a SkinChunk can have
InfluenceLists == {l \in SeqsUpTo(Labels, MaxLabels) : NoDuplicates(l)}

\* any list of up to MaxChunks SkinChunks, the empty list included: every
\* SkinChunk has its own influences, the vertex counts go round 1..MaxRows
\* from the first SkinChunk's on, and the SkinChunks from position "old" on
\* were saved before 1.1.0
InitUberChunk ==
    /\ \E n \in 0..MaxChunks :
         \E influences \in [1..n -> InfluenceLists], first \in 1..MaxRows,
            old \in 1..(n + 1) :
            Call("UberChunk",
                 [skinChunks |->
                     [c \in 1..n |->
                         SavedSkinChunk(c, influences[c],
                                        ((first + c - 2) % MaxRows) + 1, c < old)]])
    /\ KDTree = TRUE
    /\ NoSession

InitSession ==
    /\ ResamplerIdle
    /\ \/ InitImportSkinChunks
       \/ InitExportSkin
       \/ InitSetSkinnerWeights
       \/ InitSetWeightsMeshes
       \/ InitSetWeightsByVertId
       \/ InitAppImportSkin
       \/ InitUberChunk

NextSession ==
    \/ importSkinChunksCall
    \/ exportSkinCall
    \/ doIt
    \/ undoIt
    \/ redoIt
    \/ setWeightsOpen
    \/ setWeightsMesh
    \/ setWeightsApply
    \/ setWeightsFinally
    \/ AppImportSkin
    \/ UberChunkCall

SpecSession == InitSession /\ [][NextSession]_vars

\* ------------------------------------------ properties of the session
\* the positions, in the loaded list, of the SkinChunks that no loaded
\* SkinChunk of the same mesh shape is newer than
NewestOfTheirName(loaded) ==
    LET Newest(k) == \A o \in 1..Len(loaded) :
                        loaded[o].meshShapeName = loaded[k].meshShapeName =>
                            loaded[o].creationTime <= loaded[k].creationTime
    IN  SelectSeq([k \in 1..Len(loaded) |-> k], Newest)

AllFilesExist == \A f \in 1..Len(passed.filePaths) : passed.filePaths[f].isfile

\* C21: for any list of (existing) files, importSkinChunks returns without
\* error the loaded SkinChunks that are the most recent of their mesh shape
\* name, every older one removed, however many share the name.
C21_OnlyNewestKept ==
    (Done("importSkinChunks") /\ AllFilesExist) =>
        result = Returned(NewestOfTheirName(LoadedChunks(passed.filePaths)))

\* no loaded SkinChunk has two loaded SkinChunks of its name that are newer
NoTwoNewer(loaded) ==
    \A k \in 1..Len(loaded) :
        Cardinality({o \in 1..Len(loaded) :
                        /\ loaded[o].meshShapeName = loaded[k].meshShapeName
                        /\ loaded[o].creationTime > loaded[k].creationTime}) <= 1

\* what C21 says does hold when no SkinChunk is older than two others of its
\* name; otherwise the call ends in list.remove's ValueError
C21_HoldsUpToOneNewer ==
    (Done("importSkinChunks") /\ AllFilesExist) =>
        IF NoTwoNewer(LoadedChunks(passed.filePaths))
        THEN result = Returned(NewestOfTheirName(LoadedChunks(passed.filePaths)))
        ELSE result = Raised("ValueError")

\* exportSkin was stopped by an error: nothing to export, a wrong extension,
\* a failure of generateSkinChunks
ExportError ==
    \/ passed.meshes # "skinned"
    \/ passed.filePath = "other"
    \/ ~(passed.filePath = "None" /\ passed.dialog = "cancel")
          /\ passed.generate = "raise"

\* exportSkin was cancelled (file dialog, progress window), no error before
ExportCancelled ==
    /\ ~ExportError
    /\ \/ passed.filePath = "None" /\ passed.dialog = "cancel"
       \/ passed.generate = "cancel"

\* C22: exportSkin returns False whenever an error prevented the export (a
\* read-only target included), True only if the SkinChunks were written to
\* the file, and None if the operation was cancelled.
C22_ReturnTellsTheOutcome ==
    Done("exportSkin") =>
        /\ result.state = "returned"
        /\ result.ret = "True" => disk.written
        /\ ~disk.written /\ ~ExportCancelled => result.ret = "False"
        /\ ExportCancelled => result.ret = "None"

\* what C22 says does hold whenever exportSkinChunks is not reached, or is
\* reached with a path it can write to
C22_HoldsForWritableTarget ==
    (Done("exportSkin")
        /\ (ExportError \/ ExportCancelled
               \/ disk.file = "writable")) =>
        /\ result.state = "returned"
        /\ result.ret = "True" <=> disk.written
        /\ ~disk.written /\ ~ExportCancelled => result.ret = "False"
        /\ ExportCancelled => result.ret = "None"

\* with a read-only target nothing is written and True is returned
C22_ReadOnlyTargetReturnsTrue ==
    (Done("exportSkin") /\ ~ExportError /\ ~ExportCancelled
        /\ disk.file = "readonly") =>
        result = Returned("True") /\ ~disk.written

\* the command went through doIt and set the weights
CommandRan == called = "setSkinnerWeights" /\ command.queue # "none"

\* C23: run without the -blendWeights flag, the command sets the blend
\* weights of all the vertices named by -importVertNames to zero.
C23_NoFlagZeroesBlendWeights ==
    (CommandRan /\ command.queue = "done" /\ ~passed.blendWeightsFlag) =>
        \A k \in 1..Len(passed.importVertNames) :
            scene.blendWeights[passed.importVertNames[k] + 1] = Zero

\* without the flag the command leaves every blend weight as it found it
C23_NoFlagKeepsBlendWeights ==
    (CommandRan /\ ~passed.blendWeightsFlag) =>
        scene.blendWeights = history.before.blendWeights

\* C26: after doIt an undoIt restores the weights and the blend weights
\* of the addressed vertices to their values before doIt, a following
\* redoIt re-applies the values set by doIt, and so on for any alternating
\* sequence of undoIt and redoIt, with or without blend weights supplied.
C26_UndoRestoresRedoReapplies ==
    CommandRan =>
        /\ command.queue = "undone" => scene = history.before
        /\ command.queue = "done" =>
              /\ scene = history.after
              /\ GetValues(scene.weights, passed.importVertNames) = passed.weights
              /\ passed.blendWeightsFlag =>
                    GetValues(scene.blendWeights, passed.importVertNames) =
                        passed.blendWeights

\* blend weights were supplied, doIt changed weights and blend weights, and
\* the command was undone, redone and undone again
C26_Witness ==
    /\ CommandRan
    /\ passed.blendWeightsFlag
    /\ history.before.weights # history.after.weights
    /\ history.before.blendWeights # history.after.blendWeights
    /\ history.undos = 2
    /\ history.redos = 1
    /\ command.queue = "undone"
    /\ scene = history.before

\* the same without blend weights supplied, after undo and redo
C26_WitnessNoBlendWeights ==
    /\ CommandRan
    /\ ~passed.blendWeightsFlag
    /\ history.before.weights # history.after.weights
    /\ history.undos = 1
    /\ history.redos = 1
    /\ command.queue = "done"
    /\ scene = history.after

\* the passes of the mesh loop that imported by vertex ID
ByVertId(data) == data.importMethod = "Name Match (SkinChunk) : Vert ID & Order Match"
HasFingerprint(skinChunk) == DOMAIN skinChunk.vertNeighbors # {}

\* C25: setWeights copies a name-matched SkinChunk's weights by vertex ID
\* (post-smoothing disabled) only if the mesh's vertex count is the chunk's
\* saved one and the stored fingerprint was compared with the current one
\* and found equal on every sampled index; a chunk without a stored
\* fingerprint is never imported by vertex ID.
C25_VertIdOnlyOnFingerprintMatch ==
    called = "setWeights" =>
        \A e \in 1..Len(frame.ret) :
            ByVertId(frame.ret[e]) =>
                LET mesh == passed.meshes[frame.ret[e].mesh]
                IN  /\ frame.ret[e].doPostSmooth = 0
                    /\ mesh.meshShape.verts = mesh.skinChunk.meshVertCount
                    /\ HasFingerprint(mesh.skinChunk)
                    /\ FingerprintAgrees(mesh.skinChunk, mesh.meshShape)

\* what the code does: with equal vertex counts the import is by vertex
\* ID exactly when the stored fingerprint is empty or agrees
C25_VertIdAlsoWithoutFingerprint ==
    called = "setWeights" =>
        \A e \in 1..Len(frame.ret) :
            LET mesh == passed.meshes[frame.ret[e].mesh]
            IN  frame.ret[e].success =>
                   (ByVertId(frame.ret[e]) <=>
                       /\ mesh.meshShape.verts = mesh.skinChunk.meshVertCount
                       /\ \/ ~HasFingerprint(mesh.skinChunk)
                          \/ FingerprintAgrees(mesh.skinChunk, mesh.meshShape))

\* the mesh of a pass has missing influences together with related
\* skinClusters
Forced(mesh) == mesh.missingInfs /\ mesh.existingSkinClusters

\* C27: within one setWeights call setToBindPose is forced to True only for
\* a mesh that itself has missing influences together with related existing
\* skinClusters; every other mesh is handled with the value the caller
\* passed, whatever was processed before it.
C27_BindPoseDecidedPerMesh ==
    called = "setWeights" =>
        \A e \in 1..Len(frame.ret) :
            frame.ret[e].setToBindPose =
                (passed.setToBindPose \/ Forced(passed.meshes[frame.ret[e].mesh]))

\* what the code does: once a mesh forced it, setToBindPose stays True for
\* every later mesh of the call
C27_ForcedBindPoseSticks ==
    called = "setWeights" =>
        \A e \in 1..Len(frame.ret) :
            frame.ret[e].setToBindPose =
                (passed.setToBindPose
                    \/ \E m \in 1..frame.ret[e].mesh : Forced(passed.meshes[m]))

\* the chunks that are open after the calls of queue, innermost last; a
\* closeChunk with no chunk open, or with another chunk innermost, gives
\* <<"unmatched">>
RECURSIVE OpenChunks(_)
OpenChunks(queue) ==
    IF queue = <<>> THEN <<>>
    ELSE LET before == OpenChunks(SubSeq(queue, 1, Len(queue) - 1))
             last == queue[Len(queue)]
         IN  IF before = <<"unmatched">> THEN before
             ELSE IF last.op = "open" THEN Append(before, last.chunkName)
             ELSE IF before # <<>> /\ before[Len(before)] = last.chunkName
             THEN SubSeq(before, 1, Len(before) - 1)
             ELSE <<"unmatched">>

\* C29: on every exit path of setWeights after it opened the "setWeights"
\* chunk (normal return, cancel, per-mesh continue, RuntimeError while
\* setting weights, any other exception) every chunk it opened has been
\* closed exactly once, and each "setWeights undoHack" chunk is closed
\* before the next mesh is processed and before the outer chunk is closed.
C29_UndoChunksClosed ==
    called = "setWeights" =>
        /\ frame.pc \in {"start", "done"} => OpenChunks(undoQueue) = <<>>
        /\ frame.pc \in {"mesh", "finally"} => OpenChunks(undoQueue) = <<"setWeights">>
        /\ frame.pc = "apply" =>
              OpenChunks(undoQueue) = <<"setWeights", "setWeights undoHack">>

\* two meshes: the weights of the first were refused with a RuntimeError,
\* setting those of the second raised another exception, which ended the
\* call; three chunks were opened and closed
C29_Witness ==
    /\ Done("setWeights")
    /\ Len(passed.meshes) = 2
    /\ passed.meshes[1].apply = "RuntimeError"
    /\ result = Raised("TypeError")
    /\ Len(undoQueue) = 6
    /\ OpenChunks(undoQueue) = <<>>

\* a cancelled import and a skipped mesh: a mesh whose bind pose could not be
\* set, then the user's cancel
C29_WitnessCancel ==
    /\ Done("setWeights")
    /\ result = Returned("None")
    /\ Len(frame.ret) = 1
    /\ ~frame.ret[1].success
    /\ Len(undoQueue) = 2

\* App.importSkin went as far as opening its undo chunk
ImportChunkOpened ==
    /\ Done("App.importSkin")
    /\ passed.selection = "mesh"
    /\ passed.paths = "sknr"

\* C24: App.importSkin closes the undo chunk it opens: on every path after
\* its openChunk call (import succeeded, returned False, raised) a matching
\* closeChunk is issued before the method returns.
C24_ImportClosesItsChunk ==
    ImportChunkOpened => OpenChunks(undoQueue) = <<>>

\* what the code does: on every path the chunk is still open when the
\* method ends
C24_ImportLeavesItsChunkOpen ==
    ImportChunkOpened => OpenChunks(undoQueue) = <<"">>

\* the number of rows the SkinChunks before the c-th one contribute
RECURSIVE RowsBefore(_, _)
RowsBefore(skinChunks, c) ==
    IF c <= 1 THEN 0
    ELSE RowsBefore(skinChunks, c - 1) + Len(skinChunks[c - 1].weights)

C28_NearestAlwaysPooled ==
    (NeighborsRan /\ ~filterByVertNormal /\ Len(savedVertPositions) > 0) =>
        /\ raised = "none"
        /\ \A t \in 1..Len(closestIndices) :
              /\ Len(closestIndices[t]) >= 1
              /\ closestIndices[t][1] = indexArr[t][1]
        /\ Len(newWeights) = Len(closestIndices)
        /\ pc = "returned" => Len(newWeights) = Len(importVertPositions)

\* the nearest candidate lies within the search distance of target t
NearestWithinSearchDist(t) ==
    RLe(distancesArr[t][1], RMul(distancesArr[t][1], closestNeighborDistMult))

\* what C28 says does hold for every target whose nearest candidate is within
\* its own search distance: a multiplier of at least one, or a nearest
\* candidate at distance zero
C28_HoldsWhenNearestIsWithin ==
    (NeighborsRan /\ ~filterByVertNormal) =>
        /\ \A t \in 1..Len(closestIndices) :
              NearestWithinSearchDist(t) =>
                  /\ Len(closestIndices[t]) >= 1
                  /\ closestIndices[t][1] = indexArr[t][1]
                  /\ t <= Len(newWeights)
        /\ (\A t \in 1..Len(closestIndices) : NearestWithinSearchDist(t)) =>
              /\ raised = "none"
              /\ Len(newWeights) = Len(closestIndices)
              /\ pc = "returned" => Len(newWeights) = Len(importVertPositions)

\* with a multiplier below one, a target whose nearest candidate is not at
\* distance zero gets an empty pool and the call ends with ZeroDivisionError
C28_FractionalMultRaises ==
    (NeighborsRan /\ ~filterByVertNormal) =>
        \A t \in 1..Len(closestIndices) :
            (RLt(closestNeighborDistMult, One) /\ RLt(Zero, distancesArr[t][1])) =>
                /\ closestIndices[t] = <<>>
                /\ t = Len(closestIndices)
                /\ pc = "raised"
                /\ raised = "ZeroDivisionError"
                /\ Len(newWeights) = t - 1

====
